---- MODULE Spec2Model ----
(***************************************************************************)
(* FlowDeck backend: the account and profile handlers                      *)
(* (src/controllers/authController.js, userController.js) over the         *)
(* PostgreSQL schema of src/db/setup.js.                                   *)
(*                                                                         *)
(* The committed tables are the variables users, profiles, evTokens and    *)
(* refreshTokens.  Each request handler runs in a slot of req; one action  *)
(* is one awaited storage call together with the JavaScript that follows   *)
(* it up to the next await.  A handler that took a pooled client inside a  *)
(* BEGIN..COMMIT block keeps its uncommitted writes in tx until COMMIT or  *)
(* ROLLBACK (READ COMMITTED: other handlers read the committed tables; an  *)
(* insert or update that collides with an uncommitted write of another     *)
(* transaction waits for that transaction to end).                         *)
(***************************************************************************)
EXTENDS Integers, Sequences, FiniteSets, TLC

\* ------------------------------------------------------------------ bounds
MaxReqs == 2
MaxIds == 3
MaxTicks == 2
PoolSize == 2
\* clock resolution: the clock counts 1/UnitsPerSecond of a second (Date.now()
\* counts milliseconds; 32-bit arithmetic cannot hold 30 days of them)
UnitsPerSecond == 2

\* ------------------------------------------------------- program constants
\* Date.now() + 24 * 60 * 60 * 1000, in clock units
VerifyTTL == 24 * 60 * 60 * UnitsPerSecond
\* Date.now() + 30 * 24 * 60 * 60 * 1000, in clock units
RefreshRowTTL == 30 * 24 * 60 * 60 * UnitsPerSecond
\* seconds: expiresIn '7d' and '30d' (the defaults of JWT_EXPIRE, JWT_REFRESH_EXPIRE)
JwtExpire == 7 * 24 * 60 * 60
JwtRefreshExpire == 30 * 24 * 60 * 60

Undefined == "undefined"
Null == "null"
\* error.message of a storage error that is no constraint violation
StorageErrorText == "Connection terminated unexpectedly"
NoId == <<>>
NoTx == [insUsers |-> {}, insEv |-> {}, insProf |-> {}, updVerified |-> {}, delEv |-> {}]
NoWrites == [users |-> {}, ev |-> {}, prof |-> {}, rt |-> {}, updUsers |-> {}, updProf |-> {}, delEv |-> {}, delRt |-> {}]
NoRes == [status |-> 0, message |-> "", data |-> {}, error |-> {}]

Reqs == 1 .. MaxReqs

\* ------------------------------------------------------------------ inputs
Emails == {<<"a", "@", "x">>, <<"A", "@", "x">>, <<"b", "@", "x">>}
SignupPasswords == {"Passw0rd"}
LoginPasswords == {"Passw0rd", "Wr0ngPass"}
FullNames == {Undefined, "Al"}
UserTypes == {"freelancer"}
TickSteps == {1, VerifyTTL}

VARIABLES users, profiles, evTokens, refreshTokens, tx, req, now, ticks, nextId,
          consumed, aborted, calls, jwtRefreshExpire, nodeEnv, revoked

vars == <<users, profiles, evTokens, refreshTokens, tx, req, now, ticks, nextId,
          consumed, aborted, calls, jwtRefreshExpire, nodeEnv, revoked>>

\* --------------------------------------------------------- pure functions
\* String.prototype.toLowerCase on the characters the inputs use
LowerChar(c) == CASE c = "A" -> "a" [] c = "B" -> "b" [] c = "X" -> "x" [] OTHER -> c

toLowerCase(s) == [i \in DOMAIN s |-> LowerChar(s[i])]

\* bcrypt.hash / bcrypt.compare: the stored value is never the password itself
bcryptHash(password) == <<"bcrypt", password>>

bcryptCompare(password, hash) == hash = bcryptHash(password)

\* jwt.sign: iat is Date.now() in whole seconds, exp = iat + expiresIn
Seconds(ms) == ms \div UnitsPerSecond

signAccess(user, ms) ==
    [kind |-> "access", userId |-> user.id, email |-> user.email,
     userType |-> user.user_type, iat |-> Seconds(ms), exp |-> Seconds(ms) + JwtExpire]

signRefresh(userId, ms) ==
    [kind |-> "refresh", userId |-> userId, iat |-> Seconds(ms),
     exp |-> Seconds(ms) + jwtRefreshExpire]

\* alternative: jwt.verify that checks the signature only
jwtVerifySignatureOnly(token, kind, ms) ==
    IF token.kind # kind THEN "JsonWebTokenError" ELSE "ok"

\* jwt.verify(token, secret): the signature is checked first, then the
\* expiry, which has passed once the clock's whole second reaches exp
jwtVerify(token, kind, ms) ==
    IF token.kind # kind THEN "JsonWebTokenError"
    ELSE IF Seconds(ms) >= token.exp THEN "TokenExpiredError"
    ELSE "ok"

\* a token that was not signed with either secret
ForgedToken == [kind |-> "forged", userId |-> <<"u", 1>>, iat |-> 0, exp |-> JwtRefreshExpire]

\* rows[0] of a query result: the empty set stands for undefined
First(rows) == IF rows = {} THEN {} ELSE {CHOOSE x \in rows : TRUE}

\* ------------------------------------------------------------ the schema
\* users.email TEXT UNIQUE
UsersEmailTaken(email) == \E u \in users : u.email = email

\* alternative: the profiles table without UNIQUE (user_id)
ProfilesUserIdNotUnique(uid) == FALSE

\* profiles UNIQUE (user_id)
ProfilesUserIdTaken(uid) == \E p \in profiles : p.user_id = uid

\* refresh_tokens.token TEXT UNIQUE
RefreshTokenTaken(token) == \E t \in refreshTokens : t.token = token

\* An insert waits while another open transaction holds an uncommitted row
\* with the same unique key.
UsersEmailPending(r, email) ==
    \E o \in Reqs \ {r} : \E u \in tx[o].insUsers : u.email = email

ProfilesUserIdPending(r, uid) ==
    \E o \in Reqs \ {r} : \E p \in tx[o].insProf : p.user_id = uid

\* pool: clients handed out by pool.connect() and not yet released
Holds(r) == req[r].client

\* the connections r has checked out with pool.connect() and not released
ConnectionsHeld(r) == IF req[r].client THEN 1 ELSE 0

FreeClients == PoolSize - Cardinality({r \in Reqs : Holds(r)})

\* ------------------------------------------------------------ request slots
\* Handlers are interchangeable: a new request takes the lowest idle slot.
FreeSlot(r) == req[r].pc = "idle" /\ \A o \in Reqs : o < r => req[o].pc # "idle"

IdleReq ==
    [op |-> "none", pc |-> "idle", email |-> <<>>, password |-> "",
     fullName |-> Undefined, userType |-> Undefined, token |-> NoId,
     userId |-> NoId, data |-> <<>>, client |-> FALSE,
     user |-> {}, id |-> 0, code |-> "", errAt |-> "",
     minted |-> {}, rtExp |-> 0, evExp |-> 0, row |-> {}, tb |-> 0,
     res |-> NoRes, t0 |-> 0, wrote |-> NoWrites, g |-> FALSE,
     presented |-> {}, route |-> "none", header |-> [scheme |-> "none", token |-> {}],
     body |-> <<>>, step |-> 0, trail |-> <<>>, identity |-> {}, store |-> <<>>, authAt |-> 0,
     peak |-> 0, key |-> NoId]

Respond(status, message, data) ==
    [status |-> status, message |-> message, data |-> data, error |-> {}]

\* setupDatabase has created the tables; no request has arrived
EmptyStore ==
    /\ users = {}
    /\ profiles = {}
    /\ evTokens = {}
    /\ refreshTokens = {}
    /\ tx = [r \in Reqs |-> NoTx]
    /\ req = [r \in Reqs |-> IdleReq]
    /\ now = 0
    /\ ticks = 0
    /\ nextId = 1
    /\ consumed = {}
    /\ aborted = {}
    /\ calls = {}
    /\ revoked = {}

\* JWT_REFRESH_EXPIRE is not set: the refresh token lives '30d'
Init ==
    /\ EmptyStore
    /\ jwtRefreshExpire = JwtRefreshExpire
    /\ nodeEnv = "production"

\* COMMIT: the transaction's writes reach the committed tables together
CommitTx(r) ==
    /\ users' = {IF u.id \in tx[r].updVerified THEN [u EXCEPT !.email_verified = TRUE] ELSE u
                 : u \in users} \cup tx[r].insUsers
    /\ profiles' = profiles \cup tx[r].insProf
    /\ evTokens' = {t \in evTokens : t.token \notin tx[r].delEv} \cup tx[r].insEv
    /\ tx' = [tx EXCEPT ![r] = NoTx]

\* what COMMIT adds to the record of this request's committed writes
Committed(r) ==
    [req[r].wrote EXCEPT
        !.users = @ \cup tx[r].insUsers,
        !.ev = @ \cup tx[r].insEv,
        !.prof = @ \cup tx[r].insProf,
        !.updUsers = @ \cup {u.id : u \in {v \in users : v.id \in tx[r].updVerified}},
        !.delEv = @ \cup {t.token : t \in {e \in evTokens : e.token \in tx[r].delEv}}]

\* alternative: a ROLLBACK that leaves the transaction open on its client
RollbackTxMissing(r) == UNCHANGED tx

\* ROLLBACK: the transaction's writes are dropped
RollbackTx(r) == tx' = [tx EXCEPT ![r] = NoTx]

\* ------------------------------------------------------------------ signup
\* authController.js signup: the request arrives; pool.connect() is awaited
signupStart(r, email, password, fullName, userType) ==
    /\ FreeSlot(r)
    /\ nextId <= MaxIds
    /\ req' = [req EXCEPT ![r] = [IdleReq EXCEPT !.op = "signup", !.pc = "s_connect",
                                    !.email = email, !.password = password,
                                    !.fullName = fullName, !.userType = userType,
                                    !.id = nextId, !.t0 = now,
                                    !.g = ~UsersEmailTaken(toLowerCase(email))]]
    /\ nextId' = nextId + 1
    /\ calls' = calls \cup {[op |-> "signup", key |-> toLowerCase(email), id |-> nextId]}
    /\ UNCHANGED <<users, profiles, evTokens, refreshTokens, tx, now, ticks, consumed, aborted, jwtRefreshExpire, nodeEnv, revoked>>

\* pool.connect() resolves; BEGIN; the existence SELECT is sent. The time of
\* BEGIN is what NOW() gives the seed profile's column defaults
signupBegin(r) ==
    /\ req[r].pc = "s_connect"
    /\ FreeClients > 0
    /\ req' = [req EXCEPT ![r].pc = "s_select", ![r].client = TRUE, ![r].peak = 1,
                          ![r].tb = IF req[r].fullName = Undefined THEN @ ELSE now]
    /\ UNCHANGED <<users, profiles, evTokens, refreshTokens, tx, now, ticks, nextId, consumed, aborted, calls, jwtRefreshExpire, nodeEnv, revoked>>

\* SELECT id FROM users WHERE email = lower(email); rows.length > 0 -> ROLLBACK
signupSelect(r) ==
    /\ req[r].pc = "s_select"
    /\ LET rows == {u \in users : u.email = toLowerCase(req[r].email)}
       IN req' = [req EXCEPT ![r].pc = IF rows # {} THEN "s_rollback_dup" ELSE "s_insert_user"]
    /\ UNCHANGED <<users, profiles, evTokens, refreshTokens, tx, now, ticks, nextId, consumed, aborted, calls, jwtRefreshExpire, nodeEnv, revoked>>

\* ROLLBACK; 409 'User with this email already exists'; finally client.release()
signupDuplicate(r) ==
    /\ req[r].pc = "s_rollback_dup"
    /\ RollbackTx(r)
    /\ req' = [req EXCEPT ![r].pc = "done", ![r].client = FALSE,
                          ![r].res = Respond(409, "User with this email already exists", {})]
    /\ UNCHANGED <<users, profiles, evTokens, refreshTokens, now, ticks, nextId, consumed, aborted, calls, jwtRefreshExpire, nodeEnv, revoked>>

\* alternative: a user row that is born verified
NewUserRowVerified(r) ==
    [id |-> <<"u", req[r].id>>, email |-> toLowerCase(req[r].email),
     password_hash |-> bcryptHash(req[r].password),
     user_type |-> IF req[r].userType = Undefined THEN "freelancer" ELSE req[r].userType,
     email_verified |-> TRUE]

\* the row INSERT INTO users ... RETURNING gives back
NewUserRow(r) ==
    [id |-> <<"u", req[r].id>>, email |-> toLowerCase(req[r].email),
     password_hash |-> bcryptHash(req[r].password),
     user_type |-> IF req[r].userType = Undefined THEN "freelancer" ELSE req[r].userType,
     email_verified |-> FALSE]

\* INSERT INTO users: unique violation 23505 when the email is committed,
\* waits while another transaction holds it uncommitted
signupInsertUser(r) ==
    /\ req[r].pc = "s_insert_user"
    /\ ~UsersEmailPending(r, toLowerCase(req[r].email))
    /\ IF UsersEmailTaken(toLowerCase(req[r].email))
       THEN /\ req' = [req EXCEPT ![r].pc = "s_catch", ![r].code = "23505",
                                  ![r].errAt = "s_insert_user"]
            /\ aborted' = aborted \cup {req[r].id}
            /\ UNCHANGED tx
       ELSE /\ tx' = [tx EXCEPT ![r].insUsers = @ \cup {NewUserRow(r)}]
            /\ req' = [req EXCEPT ![r].pc = "s_insert_token", ![r].user = {NewUserRow(r)},
                                  ![r].token = <<"t", req[r].id>>,
                                  ![r].evExp = now + VerifyTTL]
            /\ UNCHANGED aborted
    /\ UNCHANGED <<users, profiles, evTokens, refreshTokens, now, ticks, nextId, consumed, calls, jwtRefreshExpire, nodeEnv, revoked>>

\* alternative: a signup that stores no verification token
signupInsertTokenSkipped(r) ==
    /\ req[r].pc = "s_insert_token"
    /\ req' = [req EXCEPT ![r].pc = IF req[r].fullName # Undefined THEN "s_insert_profile"
                                                                  ELSE "s_commit"]
    /\ UNCHANGED <<users, profiles, evTokens, refreshTokens, tx, now, ticks, nextId, consumed, aborted, calls, jwtRefreshExpire, nodeEnv, revoked>>

\* INSERT INTO email_verification_tokens; then the seed profile if (fullName)
signupInsertToken(r) ==
    /\ req[r].pc = "s_insert_token"
    /\ tx' = [tx EXCEPT ![r].insEv = @ \cup {[user_id |-> <<"u", req[r].id>>,
                                              token |-> req[r].token,
                                              expires_at |-> req[r].evExp]}]
    /\ req' = [req EXCEPT ![r].pc = IF req[r].fullName # Undefined THEN "s_insert_profile"
                                                                  ELSE "s_commit"]
    /\ UNCHANGED <<users, profiles, evTokens, refreshTokens, now, ticks, nextId, consumed, aborted, calls, jwtRefreshExpire, nodeEnv, revoked>>

\* the columns of a profiles row that an INSERT leaves to their defaults;
\* NOW() is the time of the transaction's BEGIN
DefaultProfile(pid, uid, t) ==
    [id |-> pid, user_id |-> uid, full_name |-> Null, display_name |-> Null,
     skills |-> <<>>, completed_at |-> {}, created_at |-> t, updated_at |-> t]

\* INSERT INTO profiles (user_id, full_name)
signupInsertProfile(r) ==
    /\ req[r].pc = "s_insert_profile"
    /\ tx' = [tx EXCEPT ![r].insProf = @ \cup
                {[DefaultProfile(<<"p", req[r].id>>, <<"u", req[r].id>>, req[r].tb)
                    EXCEPT !.full_name = req[r].fullName]}]
    /\ req' = [req EXCEPT ![r].pc = "s_commit"]
    /\ UNCHANGED <<users, profiles, evTokens, refreshTokens, now, ticks, nextId, consumed, aborted, calls, jwtRefreshExpire, nodeEnv, revoked>>

\* COMMIT; jwt.sign twice; the refresh-token INSERT is sent
signupCommit(r) ==
    /\ req[r].pc = "s_commit"
    /\ CommitTx(r)
    /\ req' = [req EXCEPT ![r].pc = "s_insert_refresh", ![r].wrote = Committed(r),
                          ![r].minted = {signAccess(CHOOSE u \in req[r].user : TRUE, now),
                                         signRefresh(<<"u", req[r].id>>, now)},
                          ![r].rtExp = now + RefreshRowTTL]
    /\ UNCHANGED <<refreshTokens, now, ticks, nextId, consumed, aborted, calls, jwtRefreshExpire, nodeEnv, revoked>>

\* the user object of the signup and login responses (no password_hash)
PublicUser(u) ==
    [id |-> u.id, email |-> u.email, userType |-> u.user_type,
     emailVerified |-> u.email_verified]

\* the refresh_tokens row a handler stores for the token it minted
RefreshRow(r) ==
    [user_id |-> (CHOOSE u \in req[r].user : TRUE).id,
     token |-> CHOOSE t \in req[r].minted : t.kind = "refresh",
     expires_at |-> req[r].rtExp]

\* INSERT INTO refresh_tokens on the same client, after COMMIT (autocommit);
\* 201 and release, or 23505 into the catch block
signupInsertRefresh(r) ==
    /\ req[r].pc = "s_insert_refresh"
    /\ IF RefreshTokenTaken(RefreshRow(r).token)
       THEN /\ req' = [req EXCEPT ![r].pc = "s_catch", ![r].code = "23505",
                                  ![r].errAt = "s_insert_refresh"]
            /\ UNCHANGED refreshTokens
       ELSE /\ refreshTokens' = refreshTokens \cup {RefreshRow(r)}
            /\ req' = [req EXCEPT ![r].pc = "done", ![r].client = FALSE,
                                  ![r].wrote.rt = @ \cup {RefreshRow(r)},
                                  ![r].res = Respond(201, "Account created successfully. Please check your email to verify your account.",
                                        [tokens |-> req[r].minted,
                                         user |-> PublicUser(CHOOSE u \in req[r].user : TRUE)])]
    /\ UNCHANGED <<users, profiles, evTokens, tx, now, ticks, nextId, consumed, aborted, calls, jwtRefreshExpire, nodeEnv, revoked>>

\* the message the catch block of signup picks from error.code
SignupErrorMessage(code) ==
    CASE code = "23505" -> "User with this email already exists"
      [] code = "23503" -> "Invalid data provided"
      [] code = "23502" -> "Required field is missing"
      [] OTHER -> StorageErrorText

\* the status the catch block of signup answers with
SignupErrorStatus(code) == 500

\* error.message of the storage error with this code
ErrorMessage(code) ==
    IF code = "23505" THEN "duplicate key value violates unique constraint"
    ELSE StorageErrorText

\* ...(process.env.NODE_ENV === 'development' && { error: error.message })
Diagnostic(code) == IF nodeEnv = "development" THEN {ErrorMessage(code)} ELSE {}

\* catch: ROLLBACK, then the error response; finally client.release()
signupCatch(r) ==
    /\ req[r].pc = "s_catch"
    /\ RollbackTx(r)
    /\ req' = [req EXCEPT ![r].pc = "done", ![r].client = FALSE,
                          ![r].res = [Respond(SignupErrorStatus(req[r].code),
                                              SignupErrorMessage(req[r].code), {})
                                      EXCEPT !.error = Diagnostic(req[r].code)]]
    /\ UNCHANGED <<users, profiles, evTokens, refreshTokens, now, ticks, nextId, consumed, aborted, calls, jwtRefreshExpire, nodeEnv, revoked>>

\* ------------------------------------------------------------------- login
\* authController.js login: the request arrives; the user SELECT is sent
loginStart(r, email, password) ==
    /\ FreeSlot(r)
    /\ req' = [req EXCEPT ![r] = [IdleReq EXCEPT !.op = "login", !.pc = "l_select",
                                    !.email = email, !.password = password]]
    /\ UNCHANGED <<users, profiles, evTokens, refreshTokens, tx, now, ticks, nextId, consumed, aborted, calls, jwtRefreshExpire, nodeEnv, revoked>>

\* alternative: login looks the user up by the email as typed
LoginLookupEmailAsTyped(email) == email

\* the email login looks the user up by
LoginLookupEmail(email) == toLowerCase(email)

\* the body of the 401 answers of login
LoginNoUser == Respond(401, "Invalid email or password", {})

\* alternative: the wrong-password answer says so
LoginBadPasswordTold == Respond(401, "Wrong password", {})

LoginBadPassword == Respond(401, "Invalid email or password", {})

\* SELECT ... FROM users WHERE email = lower(email); bcrypt.compare;
\* 401 for no row and for a wrong password; otherwise jwt.sign twice
loginSelect(r) ==
    /\ req[r].pc = "l_select"
    /\ FreeClients > 0
    /\ LET rows == {u \in users : u.email = LoginLookupEmail(req[r].email)}
           user == CHOOSE u \in rows : TRUE
       IN IF rows = {}
          THEN req' = [req EXCEPT ![r].pc = "done", ![r].res = LoginNoUser,
                                  ![r].g = \E u \in users :
                                               toLowerCase(u.email) = toLowerCase(req[r].email)]
          ELSE IF ~bcryptCompare(req[r].password, user.password_hash)
          THEN req' = [req EXCEPT ![r].pc = "done", ![r].user = {user},
                                  ![r].res = LoginBadPassword]
          ELSE req' = [req EXCEPT ![r].pc = "l_insert", ![r].user = {user},
                                  ![r].minted = {signAccess(user, now),
                                                 signRefresh(user.id, now)},
                                  ![r].rtExp = now + RefreshRowTTL]
    /\ UNCHANGED <<users, profiles, evTokens, refreshTokens, tx, now, ticks, nextId, consumed, aborted, calls, jwtRefreshExpire, nodeEnv, revoked>>

\* INSERT INTO refresh_tokens through the pool: 200, or the catch block's 500
loginInsert(r) ==
    /\ req[r].pc = "l_insert"
    /\ FreeClients > 0
    /\ IF RefreshTokenTaken(RefreshRow(r).token)
       THEN /\ req' = [req EXCEPT ![r].pc = "done", ![r].code = "23505",
                                  ![r].res = Respond(500, "Error during login", {})]
            /\ UNCHANGED refreshTokens
       ELSE /\ refreshTokens' = refreshTokens \cup {RefreshRow(r)}
            /\ req' = [req EXCEPT ![r].pc = "done",
                                  ![r].wrote.rt = @ \cup {RefreshRow(r)},
                                  ![r].res = Respond(200, "Login successful",
                                        [tokens |-> req[r].minted,
                                         user |-> PublicUser(CHOOSE u \in req[r].user : TRUE)])]
    /\ UNCHANGED <<users, profiles, evTokens, tx, now, ticks, nextId, consumed, aborted, calls, jwtRefreshExpire, nodeEnv, revoked>>

\* ------------------------------------------------------------- verifyEmail
\* authController.js verifyEmail: the request arrives; pool.connect() is awaited
verifyStart(r, token) ==
    /\ FreeSlot(r)
    /\ req' = [req EXCEPT ![r] = [IdleReq EXCEPT !.op = "verifyEmail", !.pc = "v_connect",
                                    !.token = token, !.g = token \in consumed]]
    /\ UNCHANGED <<users, profiles, evTokens, refreshTokens, tx, now, ticks, nextId, consumed, aborted, calls, jwtRefreshExpire, nodeEnv, revoked>>

\* pool.connect() resolves; BEGIN; the token SELECT is sent
verifyBegin(r) ==
    /\ req[r].pc = "v_connect"
    /\ FreeClients > 0
    /\ req' = [req EXCEPT ![r].pc = "v_select", ![r].client = TRUE, ![r].peak = 1]
    /\ UNCHANGED <<users, profiles, evTokens, refreshTokens, tx, now, ticks, nextId, consumed, aborted, calls, jwtRefreshExpire, nodeEnv, revoked>>

\* alternative: a token is expired from its expiry instant on
ExpiredAtInstant(expires_at, t) == expires_at <= t

\* new Date(expires_at) < new Date()
Expired(expires_at, t) == expires_at < t

\* SELECT user_id, expires_at FROM email_verification_tokens WHERE token = $1
verifySelect(r) ==
    /\ req[r].pc = "v_select"
    /\ LET rows == {t \in evTokens : t.token = req[r].token}
           row == CHOOSE t \in rows : TRUE
       IN IF rows = {}
          THEN req' = [req EXCEPT ![r].pc = "v_rollback_invalid"]
          ELSE IF Expired(row.expires_at, now)
          THEN req' = [req EXCEPT ![r].pc = "v_rollback_expired",
                                  ![r].evExp = row.expires_at, ![r].tb = now]
          ELSE req' = [req EXCEPT ![r].pc = "v_update", ![r].userId = row.user_id,
                                  ![r].evExp = row.expires_at, ![r].tb = now]
    /\ UNCHANGED <<users, profiles, evTokens, refreshTokens, tx, now, ticks, nextId, consumed, aborted, calls, jwtRefreshExpire, nodeEnv, revoked>>

\* ROLLBACK; 400 'Invalid verification token'; finally client.release()
verifyInvalid(r) ==
    /\ req[r].pc = "v_rollback_invalid"
    /\ RollbackTx(r)
    /\ req' = [req EXCEPT ![r].pc = "done", ![r].client = FALSE,
                          ![r].res = Respond(400, "Invalid verification token", {})]
    /\ UNCHANGED <<users, profiles, evTokens, refreshTokens, now, ticks, nextId, consumed, aborted, calls, jwtRefreshExpire, nodeEnv, revoked>>

\* ROLLBACK; 400 'Verification token has expired'; finally client.release()
verifyExpired(r) ==
    /\ req[r].pc = "v_rollback_expired"
    /\ RollbackTx(r)
    /\ req' = [req EXCEPT ![r].pc = "done", ![r].client = FALSE,
                          ![r].res = Respond(400, "Verification token has expired", {})]
    /\ UNCHANGED <<users, profiles, evTokens, refreshTokens, now, ticks, nextId, consumed, aborted, calls, jwtRefreshExpire, nodeEnv, revoked>>

\* UPDATE users SET email_verified = true WHERE id = $1: waits for the row
\* lock while another open transaction has updated the same row
verifyUpdate(r) ==
    /\ req[r].pc = "v_update"
    /\ \A o \in Reqs \ {r} : req[r].userId \notin tx[o].updVerified
    /\ tx' = [tx EXCEPT ![r].updVerified = @ \cup {req[r].userId}]
    /\ req' = [req EXCEPT ![r].pc = "v_delete"]
    /\ UNCHANGED <<users, profiles, evTokens, refreshTokens, now, ticks, nextId, consumed, aborted, calls, jwtRefreshExpire, nodeEnv, revoked>>

\* alternative: verifyEmail that keeps the token row
verifyDeleteSkipped(r) ==
    /\ req[r].pc = "v_delete"
    /\ req' = [req EXCEPT ![r].pc = "v_commit"]
    /\ UNCHANGED <<users, profiles, evTokens, refreshTokens, tx, now, ticks, nextId, consumed, aborted, calls, jwtRefreshExpire, nodeEnv, revoked>>

\* DELETE FROM email_verification_tokens WHERE token = $1
verifyDelete(r) ==
    /\ req[r].pc = "v_delete"
    /\ \A o \in Reqs \ {r} : req[r].token \notin tx[o].delEv
    /\ tx' = [tx EXCEPT ![r].delEv = @ \cup {req[r].token}]
    /\ req' = [req EXCEPT ![r].pc = "v_commit"]
    /\ UNCHANGED <<users, profiles, evTokens, refreshTokens, now, ticks, nextId, consumed, aborted, calls, jwtRefreshExpire, nodeEnv, revoked>>

\* COMMIT; 200 'Email verified successfully'; finally client.release()
verifyCommit(r) ==
    /\ req[r].pc = "v_commit"
    /\ CommitTx(r)
    /\ req' = [req EXCEPT ![r].pc = "done", ![r].client = FALSE,
                          ![r].wrote = Committed(r),
                          ![r].res = Respond(200, "Email verified successfully", {})]
    /\ consumed' = consumed \cup {req[r].token}
    /\ UNCHANGED <<refreshTokens, now, ticks, nextId, aborted, calls, jwtRefreshExpire, nodeEnv, revoked>>

\* catch: ROLLBACK; 500 'Error verifying email'; finally client.release()
verifyCatch(r) ==
    /\ req[r].pc = "v_catch"
    /\ RollbackTx(r)
    /\ req' = [req EXCEPT ![r].pc = "done", ![r].client = FALSE,
                          ![r].res = Respond(500, "Error verifying email", {})]
    /\ UNCHANGED <<users, profiles, evTokens, refreshTokens, now, ticks, nextId, consumed, aborted, calls, jwtRefreshExpire, nodeEnv, revoked>>

\* ------------------------------------------------------ refreshAccessToken
\* authController.js refreshAccessToken: the request arrives; 400 without a
\* token; jwt.verify under the refresh secret, whose throw is answered by the
\* catch block; otherwise the row SELECT is sent
refreshStart(r, presented) ==
    /\ FreeSlot(r)
    /\ LET q == [IdleReq EXCEPT !.op = "refreshAccessToken", !.presented = presented,
                                !.t0 = now, !.g = presented \subseteq revoked /\ presented # {}]
       IN IF presented = {}
          THEN req' = [req EXCEPT ![r] = [q EXCEPT !.pc = "done",
                           !.res = Respond(400, "Refresh token is required", {})]]
          ELSE IF \E t \in presented : jwtVerify(t, "refresh", now) # "ok"
          THEN req' = [req EXCEPT ![r] = [q EXCEPT !.pc = "done",
                           !.code = jwtVerify(CHOOSE t \in presented : TRUE, "refresh", now),
                           !.res = Respond(401, "Invalid or expired refresh token", {})]]
          ELSE req' = [req EXCEPT ![r] = [q EXCEPT !.pc = "r_select"]]
    /\ UNCHANGED <<users, profiles, evTokens, refreshTokens, tx, now, ticks, nextId, consumed, aborted, calls, jwtRefreshExpire, nodeEnv, revoked>>

\* alternative: a refresh that deletes the row it finds expired
refreshSelectPruning(r) ==
    /\ req[r].pc = "r_select"
    /\ FreeClients > 0
    /\ LET rows == {t \in refreshTokens : /\ {t.token} = req[r].presented
                                          /\ t.user_id = t.token.userId}
           row == CHOOSE t \in rows : TRUE
       IN IF rows = {}
          THEN /\ req' = [req EXCEPT ![r].pc = "done",
                                     ![r].res = Respond(401, "Invalid refresh token", {})]
               /\ UNCHANGED refreshTokens
          ELSE IF Expired(row.expires_at, now)
          THEN /\ req' = [req EXCEPT ![r].pc = "done", ![r].row = {row}, ![r].tb = now,
                                     ![r].res = Respond(401, "Refresh token has expired", {})]
               /\ refreshTokens' = refreshTokens \ {row}
          ELSE /\ req' = [req EXCEPT ![r].pc = "r_user", ![r].row = {row}, ![r].tb = now,
                                     ![r].userId = row.user_id]
               /\ UNCHANGED refreshTokens
    /\ UNCHANGED <<users, profiles, evTokens, tx, now, ticks, nextId, consumed, aborted, calls, jwtRefreshExpire, nodeEnv, revoked>>

\* SELECT user_id, expires_at FROM refresh_tokens WHERE token = $1 AND
\* user_id = $2; 401 without a row; 401 when new Date(expires_at) < new
\* Date(); otherwise the user SELECT is sent
refreshSelect(r) ==
    /\ req[r].pc = "r_select"
    /\ FreeClients > 0
    /\ LET rows == {t \in refreshTokens : /\ {t.token} = req[r].presented
                                          /\ t.user_id = t.token.userId}
           row == CHOOSE t \in rows : TRUE
       IN IF rows = {}
          THEN req' = [req EXCEPT ![r].pc = "done",
                                  ![r].res = Respond(401, "Invalid refresh token", {})]
          ELSE IF Expired(row.expires_at, now)
          THEN req' = [req EXCEPT ![r].pc = "done", ![r].row = {row}, ![r].tb = now,
                                  ![r].res = Respond(401, "Refresh token has expired", {})]
          ELSE req' = [req EXCEPT ![r].pc = "r_user", ![r].row = {row}, ![r].tb = now,
                                  ![r].userId = row.user_id]
    /\ UNCHANGED <<users, profiles, evTokens, refreshTokens, tx, now, ticks, nextId, consumed, aborted, calls, jwtRefreshExpire, nodeEnv, revoked>>

\* alternative: a refresh that rotates the token, deleting the row it used
refreshUserRotating(r) ==
    /\ req[r].pc = "r_user"
    /\ FreeClients > 0
    /\ refreshTokens' = refreshTokens \ req[r].row
    /\ req' = [req EXCEPT ![r].pc = "done", ![r].user = {u \in users : u.id = req[r].userId},
                          ![r].res = Respond(200, "",
                                {signAccess(u, now) : u \in {v \in users : v.id = req[r].userId}})]
    /\ UNCHANGED <<users, profiles, evTokens, tx, now, ticks, nextId, consumed, aborted, calls, jwtRefreshExpire, nodeEnv, revoked>>

\* SELECT email, user_type FROM users WHERE id = $1; jwt.sign; 200 with the
\* new access token (user.email of no row throws into the catch block)
refreshUser(r) ==
    /\ req[r].pc = "r_user"
    /\ FreeClients > 0
    /\ LET rows == {u \in users : u.id = req[r].userId}
       IN IF rows = {}
          THEN req' = [req EXCEPT ![r].pc = "done", ![r].code = "TypeError",
                                  ![r].res = Respond(401, "Invalid or expired refresh token", {})]
          ELSE req' = [req EXCEPT ![r].pc = "done", ![r].user = rows,
                                  ![r].minted = {signAccess(CHOOSE u \in rows : TRUE, now)},
                                  ![r].res = Respond(200, "",
                                        {signAccess(CHOOSE u \in rows : TRUE, now)})]
    /\ UNCHANGED <<users, profiles, evTokens, refreshTokens, tx, now, ticks, nextId, consumed, aborted, calls, jwtRefreshExpire, nodeEnv, revoked>>

\* ------------------------------------------------------------------ logout
\* authController.js logout: the request arrives; without a token it is
\* answered 200 at once, otherwise the DELETE is sent
logoutStart(r, presented) ==
    /\ FreeSlot(r)
    /\ LET q == [IdleReq EXCEPT !.op = "logout", !.presented = presented,
                                !.g = \A t \in refreshTokens : {t.token} # presented]
       IN IF presented = {}
          THEN req' = [req EXCEPT ![r] = [q EXCEPT !.pc = "done",
                           !.res = Respond(200, "Logged out successfully", {})]]
          ELSE req' = [req EXCEPT ![r] = [q EXCEPT !.pc = "o_delete"]]
    /\ UNCHANGED <<users, profiles, evTokens, refreshTokens, tx, now, ticks, nextId, consumed, aborted, calls, jwtRefreshExpire, nodeEnv, revoked>>

\* alternative: a logout that ends every session of the token's user
logoutDeleteEverySession(r) ==
    /\ req[r].pc = "o_delete"
    /\ FreeClients > 0
    /\ LET rows == {t \in refreshTokens : \E p \in req[r].presented : t.user_id = p.userId}
       IN /\ refreshTokens' = refreshTokens \ rows
          /\ req' = [req EXCEPT ![r].pc = "done", ![r].wrote.delRt = @ \cup rows,
                                ![r].res = Respond(200, "Logged out successfully", {})]
    /\ revoked' = revoked \cup req[r].presented
    /\ UNCHANGED <<users, profiles, evTokens, tx, now, ticks, nextId, consumed, aborted, calls, jwtRefreshExpire, nodeEnv>>

\* DELETE FROM refresh_tokens WHERE token = $1; 200 'Logged out successfully'
logoutDelete(r) ==
    /\ req[r].pc = "o_delete"
    /\ FreeClients > 0
    /\ LET rows == {t \in refreshTokens : {t.token} = req[r].presented}
       IN /\ refreshTokens' = refreshTokens \ rows
          /\ req' = [req EXCEPT ![r].pc = "done", ![r].wrote.delRt = @ \cup rows,
                                ![r].res = Respond(200, "Logged out successfully", {})]
    /\ revoked' = revoked \cup req[r].presented
    /\ UNCHANGED <<users, profiles, evTokens, tx, now, ticks, nextId, consumed, aborted, calls, jwtRefreshExpire, nodeEnv>>

\* ----------------------------------------------------------- createProfile
\* profileData.field || null
OrNull(data, f) == IF f \in DOMAIN data /\ data[f] # "" THEN data[f] ELSE Null

\* profileData.skills || []
OrEmpty(data, f) == IF f \in DOMAIN data THEN data[f] ELSE <<>>

\* userController.js createProfile: the authenticated request arrives
createStart(r, uid, data) ==
    /\ FreeSlot(r)
    /\ nextId <= MaxIds
    /\ \E u \in users : u.id = uid
    /\ req' = [req EXCEPT ![r] = [IdleReq EXCEPT !.op = "createProfile", !.pc = "c_connect",
                                    !.userId = uid, !.data = data, !.id = nextId,
                                    !.g = ~ProfilesUserIdTaken(uid)]]
    /\ nextId' = nextId + 1
    /\ calls' = calls \cup {[op |-> "createProfile", key |-> uid, id |-> nextId]}
    /\ UNCHANGED <<users, profiles, evTokens, refreshTokens, tx, now, ticks, consumed, aborted, jwtRefreshExpire, nodeEnv, revoked>>

\* pool.connect() resolves; BEGIN; the existence SELECT is sent
createBegin(r) ==
    /\ req[r].pc = "c_connect"
    /\ FreeClients > 0
    /\ req' = [req EXCEPT ![r].pc = "c_select", ![r].client = TRUE, ![r].tb = now,
                          ![r].peak = 1]
    /\ UNCHANGED <<users, profiles, evTokens, refreshTokens, tx, now, ticks, nextId, consumed, aborted, calls, jwtRefreshExpire, nodeEnv, revoked>>

\* alternative: a createProfile without the existence check
createSelectBlind(r) ==
    /\ req[r].pc = "c_select"
    /\ req' = [req EXCEPT ![r].pc = "c_insert"]
    /\ UNCHANGED <<users, profiles, evTokens, refreshTokens, tx, now, ticks, nextId, consumed, aborted, calls, jwtRefreshExpire, nodeEnv, revoked>>

\* SELECT id FROM profiles WHERE user_id = $1
createSelect(r) ==
    /\ req[r].pc = "c_select"
    /\ LET rows == {p \in profiles : p.user_id = req[r].userId}
       IN req' = [req EXCEPT ![r].pc = IF rows # {} THEN "c_rollback_pre" ELSE "c_insert"]
    /\ UNCHANGED <<users, profiles, evTokens, refreshTokens, tx, now, ticks, nextId, consumed, aborted, calls, jwtRefreshExpire, nodeEnv, revoked>>

\* ROLLBACK; the existing profile is then read through the pool
createRollbackPre(r) ==
    /\ req[r].pc = "c_rollback_pre"
    /\ RollbackTx(r)
    /\ req' = [req EXCEPT ![r].pc = "c_fetch_pre"]
    /\ UNCHANGED <<users, profiles, evTokens, refreshTokens, now, ticks, nextId, consumed, aborted, calls, jwtRefreshExpire, nodeEnv, revoked>>

\* pool.query SELECT * FROM profiles WHERE user_id = $1 while the client is
\* still held; 409 with rows[0]; finally client.release()
createFetchPre(r) ==
    /\ req[r].pc = "c_fetch_pre"
    /\ FreeClients > 0
    /\ req' = [req EXCEPT ![r].pc = "done", ![r].client = FALSE,
                          ![r].peak = ConnectionsHeld(r) + 1,
                          ![r].res = Respond(409, "Profile already exists for this user. Use PATCH /api/profile to update.",
                                             First({p \in profiles : p.user_id = req[r].userId}))]
    /\ UNCHANGED <<users, profiles, evTokens, refreshTokens, tx, now, ticks, nextId, consumed, aborted, calls, jwtRefreshExpire, nodeEnv, revoked>>

\* alternative: an INSERT that leaves completed_at to its default
NewProfileRowIncomplete(r) ==
    [id |-> <<"p", req[r].id>>, user_id |-> req[r].userId,
     full_name |-> OrNull(req[r].data, "fullName"),
     display_name |-> OrNull(req[r].data, "displayName"),
     skills |-> OrEmpty(req[r].data, "skills"),
     completed_at |-> {}, created_at |-> req[r].tb, updated_at |-> req[r].tb]

\* the row of INSERT INTO profiles (...) VALUES (..., NOW()) RETURNING *
NewProfileRow(r) ==
    [id |-> <<"p", req[r].id>>, user_id |-> req[r].userId,
     full_name |-> OrNull(req[r].data, "fullName"),
     display_name |-> OrNull(req[r].data, "displayName"),
     skills |-> OrEmpty(req[r].data, "skills"),
     completed_at |-> {req[r].tb}, created_at |-> req[r].tb, updated_at |-> req[r].tb]

\* INSERT INTO profiles: unique violation 23505 when the user_id is
\* committed, waits while another transaction holds it uncommitted
createInsert(r) ==
    /\ req[r].pc = "c_insert"
    /\ ~ProfilesUserIdPending(r, req[r].userId)
    /\ IF ProfilesUserIdTaken(req[r].userId)
       THEN /\ req' = [req EXCEPT ![r].pc = "c_catch", ![r].code = "23505",
                                  ![r].errAt = "c_insert"]
            /\ UNCHANGED tx
       ELSE /\ tx' = [tx EXCEPT ![r].insProf = @ \cup {NewProfileRow(r)}]
            /\ req' = [req EXCEPT ![r].pc = "c_commit", ![r].row = {NewProfileRow(r)}]
    /\ UNCHANGED <<users, profiles, evTokens, refreshTokens, now, ticks, nextId, consumed, aborted, calls, jwtRefreshExpire, nodeEnv, revoked>>

\* COMMIT; 201 with the inserted row; finally client.release()
createCommit(r) ==
    /\ req[r].pc = "c_commit"
    /\ CommitTx(r)
    /\ req' = [req EXCEPT ![r].pc = "done", ![r].client = FALSE,
                          ![r].wrote = Committed(r),
                          ![r].res = Respond(201, "Profile created successfully", req[r].row)]
    /\ UNCHANGED <<refreshTokens, now, ticks, nextId, consumed, aborted, calls, jwtRefreshExpire, nodeEnv, revoked>>

\* alternative: the catch block does not recognise the unique violation
IsUniqueViolationNever(code) == FALSE

\* error.code === '23505' (PostgreSQL unique violation)
IsUniqueViolation(code) == code = "23505"

\* catch: ROLLBACK; 23505 goes on to read the existing profile, anything
\* else is answered 500 'Error creating profile'; finally client.release()
createCatch(r) ==
    /\ req[r].pc = "c_catch"
    /\ RollbackTx(r)
    /\ IF IsUniqueViolation(req[r].code)
       THEN req' = [req EXCEPT ![r].pc = "c_fetch_dup"]
       ELSE req' = [req EXCEPT ![r].pc = "done", ![r].client = FALSE,
                               ![r].res = Respond(500, "Error creating profile", {})]
    /\ UNCHANGED <<users, profiles, evTokens, refreshTokens, now, ticks, nextId, consumed, aborted, calls, jwtRefreshExpire, nodeEnv, revoked>>

\* pool.query SELECT * FROM profiles WHERE user_id = $1 in the catch block;
\* 409 with rows[0]; finally client.release()
createFetchDup(r) ==
    /\ req[r].pc = "c_fetch_dup"
    /\ FreeClients > 0
    /\ req' = [req EXCEPT ![r].pc = "done", ![r].client = FALSE,
                          ![r].peak = ConnectionsHeld(r) + 1,
                          ![r].res = Respond(409, "Profile already exists. Cannot create duplicate.",
                                             First({p \in profiles : p.user_id = req[r].userId}))]
    /\ UNCHANGED <<users, profiles, evTokens, refreshTokens, tx, now, ticks, nextId, consumed, aborted, calls, jwtRefreshExpire, nodeEnv, revoked>>

\* ----------------------------------------------------------- updateProfile
\* the SET list: one entry per field that is not undefined, and completed_at
UpdateColumns(data) == (DOMAIN data \cap {"fullName", "displayName", "skills"}) \cup {"completed_at"}

\* alternative: an UPDATE with completed_at = NOW() in place of the COALESCE
UpdatedRowCompleting(p, data, t) ==
    [id |-> p.id, user_id |-> p.user_id,
     full_name |-> IF "fullName" \in DOMAIN data THEN data["fullName"] ELSE p.full_name,
     display_name |-> IF "displayName" \in DOMAIN data THEN data["displayName"]
                                                       ELSE p.display_name,
     skills |-> IF "skills" \in DOMAIN data THEN data["skills"] ELSE p.skills,
     completed_at |-> {t}, created_at |-> p.created_at, updated_at |-> t]

\* alternative: an UPDATE that sets every column, absent fields to null
UpdatedRowOverwriting(p, data, t) ==
    [id |-> p.id, user_id |-> p.user_id,
     full_name |-> OrNull(data, "fullName"),
     display_name |-> OrNull(data, "displayName"),
     skills |-> OrEmpty(data, "skills"),
     completed_at |-> IF p.completed_at = {} THEN {t} ELSE p.completed_at,
     created_at |-> p.created_at, updated_at |-> t]

\* UPDATE profiles SET ..., completed_at = COALESCE(completed_at, NOW());
\* the trigger update_profiles_updated_at sets updated_at = NOW()
UpdatedRow(p, data, t) ==
    [id |-> p.id, user_id |-> p.user_id,
     full_name |-> IF "fullName" \in DOMAIN data THEN data["fullName"] ELSE p.full_name,
     display_name |-> IF "displayName" \in DOMAIN data THEN data["displayName"]
                                                       ELSE p.display_name,
     skills |-> IF "skills" \in DOMAIN data THEN data["skills"] ELSE p.skills,
     completed_at |-> IF p.completed_at = {} THEN {t} ELSE p.completed_at,
     created_at |-> p.created_at, updated_at |-> t]

\* userController.js updateProfile: the authenticated request arrives
updateStart(r, uid, data) ==
    /\ FreeSlot(r)
    /\ \E u \in users : u.id = uid
    /\ req' = [req EXCEPT ![r] = [IdleReq EXCEPT !.op = "updateProfile", !.pc = "u_select",
                                    !.userId = uid, !.data = data]]
    /\ UNCHANGED <<users, profiles, evTokens, refreshTokens, tx, now, ticks, nextId, consumed, aborted, calls, jwtRefreshExpire, nodeEnv, revoked>>

\* alternative: an updateProfile without the existence check
updateSelectUnchecked(r) ==
    /\ req[r].pc = "u_select"
    /\ FreeClients > 0
    /\ req' = [req EXCEPT ![r].pc = "u_update"]
    /\ UNCHANGED <<users, profiles, evTokens, refreshTokens, tx, now, ticks, nextId, consumed, aborted, calls, jwtRefreshExpire, nodeEnv, revoked>>

\* SELECT id FROM profiles WHERE user_id = $1; 404 when there is no row;
\* 400 when the SET list is empty; otherwise the UPDATE is sent
updateSelect(r) ==
    /\ req[r].pc = "u_select"
    /\ FreeClients > 0
    /\ IF {p \in profiles : p.user_id = req[r].userId} = {}
       THEN req' = [req EXCEPT ![r].pc = "done",
                               ![r].res = Respond(404, "Profile not found. Please create a profile first.", {})]
       ELSE IF UpdateColumns(req[r].data) = {}
       THEN req' = [req EXCEPT ![r].pc = "done",
                               ![r].res = Respond(400, "No fields to update", {})]
       ELSE req' = [req EXCEPT ![r].pc = "u_update"]
    /\ UNCHANGED <<users, profiles, evTokens, refreshTokens, tx, now, ticks, nextId, consumed, aborted, calls, jwtRefreshExpire, nodeEnv, revoked>>

\* UPDATE profiles SET ... WHERE user_id = $n RETURNING *; 200 with rows[0]
updateUpdate(r) ==
    /\ req[r].pc = "u_update"
    /\ FreeClients > 0
    /\ LET old == {p \in profiles : p.user_id = req[r].userId}
           new == {UpdatedRow(p, req[r].data, now) : p \in old}
       IN /\ profiles' = (profiles \ old) \cup new
          /\ req' = [req EXCEPT ![r].pc = "done",
                                ![r].wrote.updProf = @ \cup {p.id : p \in old},
                                ![r].res = Respond(200, "Profile updated successfully", First(new))]
    /\ UNCHANGED <<users, evTokens, refreshTokens, tx, now, ticks, nextId, consumed, aborted, calls, jwtRefreshExpire, nodeEnv, revoked>>

\* ------------------------------------------------------------- user routes
\* alternative: POST /profile with authMiddleware registered after the rate
\* limit and the validation
ChainAuthLast(route) ==
    CASE route = "GET /me" -> <<"authMiddleware", "getMe">>
      [] route = "POST /profile" -> <<"profileLimiter", "validate", "authMiddleware", "createProfile">>
      [] route = "PATCH /profile" -> <<"authMiddleware", "validate", "updateProfile">>

\* routes/user.js: what router.get('/me'), router.post('/profile') and
\* router.patch('/profile') run, in the order of their arguments
Chain(route) ==
    CASE route = "GET /me" -> <<"authMiddleware", "getMe">>
      [] route = "POST /profile" -> <<"authMiddleware", "profileLimiter", "validate", "createProfile">>
      [] route = "PATCH /profile" -> <<"authMiddleware", "validate", "updateProfile">>

\* the middleware or handler the request r is about to enter
Entering(r, name) ==
    /\ req[r].pc = "mw"
    /\ req[r].step <= Len(Chain(req[r].route))
    /\ Chain(req[r].route)[req[r].step] = name

\* a request for one of the user routes arrives
routeStart(r, route, header, body) ==
    /\ FreeSlot(r)
    /\ req' = [req EXCEPT ![r] = [IdleReq EXCEPT !.op = "route", !.pc = "mw", !.route = route,
                                    !.header = header, !.body = body, !.step = 1]]
    /\ UNCHANGED <<users, profiles, evTokens, refreshTokens, tx, now, ticks, nextId, consumed, aborted, calls, jwtRefreshExpire, nodeEnv, revoked>>

\* alternative: a middleware that also looks the user's session up in storage
AuthDecisionStored(header, ms) ==
    IF header.scheme # "Bearer" THEN "NoToken"
    ELSE IF header.token = {} THEN "JsonWebTokenError"
    ELSE LET t == CHOOSE x \in header.token : TRUE
         IN IF jwtVerify(t, "access", ms) = "ok"
                /\ ~\E row \in refreshTokens : row.user_id = t.userId
            THEN "JsonWebTokenError"
            ELSE jwtVerify(t, "access", ms)

\* what authMiddleware decides from the authorization header and the clock
AuthDecision(header, ms) ==
    IF header.scheme # "Bearer" THEN "NoToken"
    ELSE IF header.token = {} THEN "JsonWebTokenError"
    ELSE jwtVerify(CHOOSE t \in header.token : TRUE, "access", ms)

\* the answers of authMiddleware's early return and catch block
AuthRefusal(decision) ==
    CASE decision = "NoToken" -> Respond(401, "No token provided. Access denied.", {})
      [] decision = "TokenExpiredError" -> Respond(401, "Token expired. Please login again.", {})
      [] decision = "JsonWebTokenError" -> Respond(401, "Invalid token. Access denied.", {})
      [] OTHER -> Respond(500, "Authentication error", {})

\* req.user = {id: decoded.userId, email: decoded.email, userType: decoded.userType}
Identity(header) ==
    {[id |-> t.userId, email |-> t.email, userType |-> t.userType] : t \in header.token}

\* alternative: the route guarded by optionalAuth, which sets req.user when
\* the token verifies and calls next() in every case
optionalAuth(r) ==
    /\ Entering(r, "authMiddleware")
    /\ LET decision == AuthDecision(req[r].header, now)
       IN req' = [req EXCEPT ![r].trail = Append(@, "authMiddleware"), ![r].authAt = now,
                             ![r].store = <<users, profiles, refreshTokens>>,
                             ![r].identity = IF decision = "ok" THEN Identity(req[r].header)
                                             ELSE {},
                             ![r].step = @ + 1]
    /\ UNCHANGED <<users, profiles, evTokens, refreshTokens, tx, now, ticks, nextId, consumed, aborted, calls, jwtRefreshExpire, nodeEnv, revoked>>

\* middleware/auth.js authMiddleware: 401, or req.user and next()
authMiddleware(r) ==
    /\ Entering(r, "authMiddleware")
    /\ LET decision == AuthDecision(req[r].header, now)
           q == [req[r] EXCEPT !.trail = Append(@, "authMiddleware"), !.authAt = now,
                               !.store = <<users, profiles, refreshTokens>>]
       IN IF decision = "ok"
          THEN req' = [req EXCEPT ![r] = [q EXCEPT !.identity = Identity(req[r].header),
                                                   !.step = @ + 1]]
          ELSE req' = [req EXCEPT ![r] = [q EXCEPT !.pc = "done", !.code = decision,
                                                   !.res = AuthRefusal(decision)]]
    /\ UNCHANGED <<users, profiles, evTokens, refreshTokens, tx, now, ticks, nextId, consumed, aborted, calls, jwtRefreshExpire, nodeEnv, revoked>>

\* middleware/rateLimiter.js profileLimiter: next(), or 429 once the window's
\* attempts are used up
profileLimiter(r, allowed) ==
    /\ Entering(r, "profileLimiter")
    /\ IF allowed
       THEN req' = [req EXCEPT ![r].trail = Append(@, "profileLimiter"), ![r].step = @ + 1]
       ELSE req' = [req EXCEPT ![r].trail = Append(@, "profileLimiter"), ![r].pc = "done",
                               ![r].res = Respond(429, "Too many requests", {})]
    /\ UNCHANGED <<users, profiles, evTokens, refreshTokens, tx, now, ticks, nextId, consumed, aborted, calls, jwtRefreshExpire, nodeEnv, revoked>>

\* profileSchema: fullName of at least 2 characters when given
ValidProfile(body) == "fullName" \in DOMAIN body => Len(body["fullName"]) >= 2

\* profileSchema.parseAsync: skills defaults to []; updateProfileSchema is
\* profileSchema.partial(), which leaves an absent field absent
Parsed(route, body) ==
    IF route = "POST /profile" /\ "skills" \notin DOMAIN body
    THEN [f \in DOMAIN body \cup {"skills"} |-> IF f = "skills" THEN <<>> ELSE body[f]]
    ELSE body

\* middleware/validation.js validate(schema): 400 'Validation failed', or
\* req.validatedData and next()
validate(r) ==
    /\ Entering(r, "validate")
    /\ IF ValidProfile(req[r].body)
       THEN req' = [req EXCEPT ![r].trail = Append(@, "validate"), ![r].step = @ + 1,
                               ![r].data = Parsed(req[r].route, req[r].body)]
       ELSE req' = [req EXCEPT ![r].trail = Append(@, "validate"), ![r].pc = "done",
                               ![r].res = Respond(400, "Validation failed", {})]
    /\ UNCHANGED <<users, profiles, evTokens, refreshTokens, tx, now, ticks, nextId, consumed, aborted, calls, jwtRefreshExpire, nodeEnv, revoked>>

\* req.user.id, undefined when no middleware set req.user
UserIdOf(r) ==
    IF req[r].identity = {} THEN Undefined ELSE (CHOOSE i \in req[r].identity : TRUE).id

\* createProfile is called: userId = req.user.id; pool.connect() is awaited
createEnter(r) ==
    /\ Entering(r, "createProfile")
    /\ nextId <= MaxIds
    /\ LET uid == UserIdOf(r)
       IN /\ req' = [req EXCEPT ![r].op = "createProfile", ![r].pc = "c_connect",
                                ![r].trail = Append(@, "createProfile"),
                                ![r].userId = uid, ![r].id = nextId,
                                ![r].g = ~ProfilesUserIdTaken(uid)]
          /\ calls' = calls \cup {[op |-> "createProfile", key |-> uid, id |-> nextId]}
    /\ nextId' = nextId + 1
    /\ UNCHANGED <<users, profiles, evTokens, refreshTokens, tx, now, ticks, consumed, aborted, jwtRefreshExpire, nodeEnv, revoked>>

\* updateProfile is called: userId = req.user.id; the profile SELECT is sent
updateEnter(r) ==
    /\ Entering(r, "updateProfile")
    /\ req' = [req EXCEPT ![r].op = "updateProfile", ![r].pc = "u_select",
                          ![r].trail = Append(@, "updateProfile"),
                          ![r].userId = UserIdOf(r)]
    /\ UNCHANGED <<users, profiles, evTokens, refreshTokens, tx, now, ticks, nextId, consumed, aborted, calls, jwtRefreshExpire, nodeEnv, revoked>>

\* getMe is called: userId = req.user.id; the SELECT ... LEFT JOIN is sent
getMeEnter(r) ==
    /\ Entering(r, "getMe")
    /\ req' = [req EXCEPT ![r].op = "getMe", ![r].pc = "m_select",
                          ![r].trail = Append(@, "getMe"),
                          ![r].userId = UserIdOf(r)]
    /\ UNCHANGED <<users, profiles, evTokens, refreshTokens, tx, now, ticks, nextId, consumed, aborted, calls, jwtRefreshExpire, nodeEnv, revoked>>

\* userController.js getMe: SELECT ... FROM users u LEFT JOIN profiles p;
\* 404 'User not found' without a row, otherwise 200 with user and profile
getMeSelect(r) ==
    /\ req[r].pc = "m_select"
    /\ FreeClients > 0
    /\ LET rows == {u \in users : u.id = req[r].userId}
       IN IF rows = {}
          THEN req' = [req EXCEPT ![r].pc = "done",
                                  ![r].res = Respond(404, "User not found", {})]
          ELSE req' = [req EXCEPT ![r].pc = "done",
                                  ![r].res = Respond(200, "",
                                        [user |-> {PublicUser(u) : u \in rows},
                                         profile |-> First({p \in profiles :
                                                               p.user_id = req[r].userId})])]
    /\ UNCHANGED <<users, profiles, evTokens, refreshTokens, tx, now, ticks, nextId, consumed, aborted, calls, jwtRefreshExpire, nodeEnv, revoked>>

\* ---------------------------------------------------------- getProfileById
\* profiles.id and profiles.user_id are UUID columns: the parameter $1 of
\* WHERE p.id = $1 OR p.user_id = $1 is read as a uuid, and a text that is
\* none raises 22P02
IsUuid(k) == Len(k) = 2 /\ k[1] \in {"u", "p"}

\* p.*, u.email, u.user_type of the SELECT list (users.created_at is not a
\* column of the users rows kept here)
JoinedRow(p, u) ==
    [id |-> p.id, user_id |-> p.user_id, full_name |-> p.full_name,
     display_name |-> p.display_name, skills |-> p.skills,
     completed_at |-> p.completed_at, created_at |-> p.created_at,
     updated_at |-> p.updated_at, email |-> u.email, user_type |-> u.user_type]

\* FROM profiles p JOIN users u ON p.user_id = u.id WHERE p.id = $1 OR p.user_id = $1
ProfileLookup(k) ==
    {JoinedRow(x[1], x[2]) : x \in {y \in profiles \X users :
                                       /\ y[1].user_id = y[2].id
                                       /\ y[1].id = k \/ y[1].user_id = k}}

\* GET /profile/:id arrives: const { id } = req.params; the SELECT is sent
getProfileByIdStart(r, k) ==
    /\ FreeSlot(r)
    /\ req' = [req EXCEPT ![r] = [IdleReq EXCEPT !.op = "getProfileById", !.pc = "g_select",
                                    !.key = k]]
    /\ UNCHANGED <<users, profiles, evTokens, refreshTokens, tx, now, ticks, nextId, consumed, aborted, calls, jwtRefreshExpire, nodeEnv, revoked>>

\* pool.query of the join; 404 'Profile not found' without a row, 200 with
\* rows[0]; a rejected query is answered by the catch block with 500
getProfileByIdSelect(r) ==
    /\ req[r].pc = "g_select"
    /\ FreeClients > 0
    /\ IF ~IsUuid(req[r].key)
       THEN req' = [req EXCEPT ![r].pc = "done", ![r].code = "22P02", ![r].errAt = "g_select",
                               ![r].res = Respond(500, "Error fetching profile", {})]
       ELSE LET rows == ProfileLookup(req[r].key)
            IN IF rows = {}
               THEN req' = [req EXCEPT ![r].pc = "done",
                                       ![r].res = Respond(404, "Profile not found", {})]
               ELSE req' = [req EXCEPT ![r].pc = "done",
                                       ![r].res = Respond(200, "", First(rows))]
    /\ UNCHANGED <<users, profiles, evTokens, refreshTokens, tx, now, ticks, nextId, consumed, aborted, calls, jwtRefreshExpire, nodeEnv, revoked>>

\* ---------------------------------------------------------- storage faults
\* the awaited storage calls that sit inside a try block with a catch that
\* rolls back
SignupTxPcs == {"s_select", "s_insert_user", "s_insert_token", "s_insert_profile", "s_commit"}

CaughtPcs ==
    SignupTxPcs \cup {"s_rollback_dup", "s_insert_refresh"}
    \cup {"v_select", "v_rollback_invalid", "v_rollback_expired", "v_update", "v_delete", "v_commit"}
    \cup {"c_select", "c_rollback_pre", "c_fetch_pre", "c_insert", "c_commit"}

\* pool.connect() before the try block, and the awaits inside a catch block:
\* the rejection leaves the handler without a response being sent
UncaughtPcs == {"s_connect", "v_connect", "c_connect", "s_catch", "v_catch", "c_catch", "c_fetch_dup"}

\* the handlers whose catch block answers without a further storage call
AnsweredPcs ==
    {"l_select", "l_insert", "u_select", "u_update", "r_select", "r_user", "o_delete", "m_select",
     "g_select"}

CatchOf(pc) ==
    CASE pc \in {"s_select", "s_rollback_dup", "s_insert_user", "s_insert_token",
                 "s_insert_profile", "s_commit", "s_insert_refresh"} -> "s_catch"
      [] pc \in {"v_select", "v_rollback_invalid", "v_rollback_expired", "v_update",
                 "v_delete", "v_commit"} -> "v_catch"
      [] OTHER -> "c_catch"

CatchResponse(pc) ==
    CASE pc \in {"l_select", "l_insert"} -> Respond(500, "Error during login", {})
      [] pc \in {"u_select", "u_update"} -> Respond(500, "Error updating profile", {})
      [] pc \in {"r_select", "r_user"} -> Respond(401, "Invalid or expired refresh token", {})
      [] pc = "o_delete" -> Respond(500, "Error during logout", {})
      [] pc = "m_select" -> Respond(500, "Error fetching user data", {})
      [] pc = "g_select" -> Respond(500, "Error fetching profile", {})
      [] OTHER -> NoRes

\* The storage call a handler is waiting for fails with an error that is no
\* constraint violation (connection lost, timeout).  Nothing of the failed
\* call is applied; an open transaction stays open until the handler's
\* ROLLBACK, and is dropped with the connection when no ROLLBACK follows.
Fault(r) ==
    /\ req[r].pc \in CaughtPcs \cup UncaughtPcs \cup AnsweredPcs
    /\ IF req[r].pc \in CaughtPcs
       THEN /\ req' = [req EXCEPT ![r].pc = CatchOf(req[r].pc), ![r].code = "08006",
                                  ![r].errAt = req[r].pc]
            /\ UNCHANGED tx
       ELSE /\ req' = [req EXCEPT ![r].pc = "done", ![r].client = FALSE,
                                  ![r].code = "08006", ![r].errAt = req[r].pc,
                                  ![r].res = CatchResponse(req[r].pc)]
            /\ tx' = [tx EXCEPT ![r] = NoTx]
    /\ aborted' = IF req[r].pc \in SignupTxPcs THEN aborted \cup {req[r].id} ELSE aborted
    /\ UNCHANGED <<users, profiles, evTokens, refreshTokens, now, ticks, nextId, consumed, calls, jwtRefreshExpire, nodeEnv, revoked>>

\* --------------------------------------------------------------- the clock
Tick(d) ==
    /\ ticks < MaxTicks
    /\ now' = now + d
    /\ ticks' = ticks + 1
    /\ UNCHANGED <<users, profiles, evTokens, refreshTokens, tx, req, nextId, consumed, aborted, calls, jwtRefreshExpire, nodeEnv, revoked>>

\* the response has been delivered; the slot takes the next request
Recycle(r) ==
    /\ req[r].pc = "done"
    /\ req' = [req EXCEPT ![r] = IdleReq]
    /\ UNCHANGED <<users, profiles, evTokens, refreshTokens, tx, now, ticks, nextId, consumed, aborted, calls, jwtRefreshExpire, nodeEnv, revoked>>

\* ---------------------------------------------------------- specifications
\* inputs
OneEmail == {<<"a", "@", "x">>}
TwoEmails == {<<"a", "@", "x">>, <<"b", "@", "x">>}
CaseEmails == {<<"a", "@", "x">>, <<"A", "@", "x">>}
UserIds == {<<"u", i>> : i \in 1 .. MaxIds}
VerifyTokens == {<<"t", i>> : i \in 1 .. MaxIds}
CreateInputs == {[skills |-> <<>>], [fullName |-> "Al", displayName |-> "", skills |-> <<"js">>]}
UpdateInputs == {<<>>, [displayName |-> "d"]}

SignupCore(r) ==
    \/ signupBegin(r)
    \/ signupSelect(r)
    \/ signupDuplicate(r)
    \/ signupInsertUser(r)
    \/ signupInsertToken(r)
    \/ signupCommit(r)
    \/ signupInsertRefresh(r)
    \/ signupCatch(r)

SignupSteps(r) ==
    \/ SignupCore(r)
    \/ signupInsertProfile(r)

LoginSteps(r) ==
    \/ loginSelect(r)
    \/ loginInsert(r)

VerifySteps(r) ==
    \/ verifyBegin(r)
    \/ verifySelect(r)
    \/ verifyInvalid(r)
    \/ verifyUpdate(r)
    \/ verifyDelete(r)
    \/ verifyCommit(r)

CreateSteps(r) ==
    \/ createBegin(r)
    \/ createSelect(r)
    \/ createRollbackPre(r)
    \/ createFetchPre(r)
    \/ createInsert(r)
    \/ createCommit(r)
    \/ createCatch(r)
    \/ createFetchDup(r)

UpdateSteps(r) ==
    \/ updateSelect(r)
    \/ updateUpdate(r)

RefreshSteps(r) ==
    \/ refreshSelect(r)
    \/ refreshUser(r)

\* the refresh tokens a client can present: those it was handed and still has
\* a row for, those it has logged out, and one it made up
RefreshInputs == {{t.token} : t \in refreshTokens} \cup {{t} : t \in revoked} \cup {{ForgedToken}}

\* every handler with every input, the clock and the storage faults
Next ==
    \/ \E r \in Reqs, e \in Emails, p \in SignupPasswords, f \in FullNames, t \in UserTypes :
          signupStart(r, e, p, f, t)
    \/ \E r \in Reqs, e \in Emails, p \in LoginPasswords : loginStart(r, e, p)
    \/ \E r \in Reqs, t \in VerifyTokens : verifyStart(r, t)
    \/ \E r \in Reqs, u \in UserIds, d \in CreateInputs : createStart(r, u, d)
    \/ \E r \in Reqs, u \in UserIds, d \in UpdateInputs : updateStart(r, u, d)
    \/ \E r \in Reqs, p \in RefreshInputs \cup {{}} : refreshStart(r, p) \/ logoutStart(r, p)
    \/ \E r \in Reqs : SignupSteps(r) \/ LoginSteps(r) \/ CreateSteps(r) \/ UpdateSteps(r)
    \/ \E r \in Reqs : RefreshSteps(r) \/ logoutDelete(r)
    \/ \E r \in Reqs : VerifySteps(r) \/ verifyExpired(r) \/ verifyCatch(r)
    \/ \E r \in Reqs : Fault(r)
    \/ \E d \in TickSteps : Tick(d)
    \/ \E r \in Reqs : Recycle(r)

Spec == Init /\ [][Next]_vars

\* signup, createProfile and updateProfile
NextProfile ==
    \/ \E r \in Reqs, e \in OneEmail, f \in FullNames : signupStart(r, e, "Passw0rd", f, "freelancer")
    \/ \E r \in Reqs, u \in UserIds, d \in CreateInputs : createStart(r, u, d)
    \/ \E r \in Reqs, u \in UserIds : updateStart(r, u, [displayName |-> "d"])
    \/ \E r \in Reqs : SignupSteps(r) \/ CreateSteps(r) \/ UpdateSteps(r)
    \/ \E r \in Reqs : Recycle(r)

SpecProfile == Init /\ [][NextProfile]_vars

\* signup and createProfile
NextCreate ==
    \/ \E r \in Reqs, e \in OneEmail, f \in FullNames : signupStart(r, e, "Passw0rd", f, "freelancer")
    \/ \E r \in Reqs, u \in UserIds, d \in CreateInputs : createStart(r, u, d)
    \/ \E r \in Reqs : SignupSteps(r) \/ CreateSteps(r)
    \/ \E r \in Reqs : Recycle(r)

SpecCreate == Init /\ [][NextCreate]_vars

\* signup alone, with emails that differ only in case
NextSignup ==
    \/ \E r \in Reqs, e \in CaseEmails, f \in FullNames : signupStart(r, e, "Passw0rd", f, "freelancer")
    \/ \E r \in Reqs : SignupSteps(r)
    \/ \E r \in Reqs : Recycle(r)

SpecSignup == Init /\ [][NextSignup]_vars

\* signup and login with the right password, emails that differ only in case
NextAuth ==
    \/ \E r \in Reqs, e \in CaseEmails : signupStart(r, e, "Passw0rd", Undefined, "freelancer")
    \/ \E r \in Reqs, e \in CaseEmails : loginStart(r, e, "Passw0rd")
    \/ \E r \in Reqs : SignupCore(r) \/ LoginSteps(r)
    \/ \E r \in Reqs : Recycle(r)

SpecAuth == Init /\ [][NextAuth]_vars

\* one registered email; login with it or another one, right or wrong password
NextLogin ==
    \/ \E r \in Reqs, e \in OneEmail : signupStart(r, e, "Passw0rd", Undefined, "freelancer")
    \/ \E r \in Reqs, e \in TwoEmails, p \in LoginPasswords : loginStart(r, e, p)
    \/ \E r \in Reqs : SignupCore(r) \/ LoginSteps(r)
    \/ \E r \in Reqs : Recycle(r)

SpecLogin == Init /\ [][NextLogin]_vars

\* signup with a fullName whose storage calls may fail
NextFault ==
    \/ \E r \in Reqs, e \in OneEmail : signupStart(r, e, "Passw0rd", "Al", "freelancer")
    \/ \E r \in Reqs : SignupSteps(r)
    \/ \E r \in Reqs : Fault(r)
    \/ \E r \in Reqs : Recycle(r)

SpecFault == Init /\ [][NextFault]_vars

\* signup and verifyEmail
NextVerify ==
    \/ \E r \in Reqs, e \in OneEmail : signupStart(r, e, "Passw0rd", Undefined, "freelancer")
    \/ \E r \in Reqs, t \in VerifyTokens : verifyStart(r, t)
    \/ \E r \in Reqs : SignupCore(r) \/ VerifySteps(r)
    \/ \E r \in Reqs : Recycle(r)

SpecVerify == Init /\ [][NextVerify]_vars

\* MaxReqs signups while the clock advances: one user without and one with
\* a fullName
SignupInputs ==
    {[email |-> <<"a", "@", "x">>, fullName |-> Undefined],
     [email |-> <<"b", "@", "x">>, fullName |-> "Al"]}

NextSignupClock ==
    \/ \E r \in Reqs, i \in SignupInputs : signupStart(r, i.email, "Passw0rd", i.fullName, "freelancer")
    \/ \E r \in Reqs : SignupSteps(r)
    \/ Tick(1)

SpecSignupClock == Init /\ [][NextSignupClock]_vars

\* MaxReqs signups and logins of one user while the clock advances
NextLoginClock ==
    \/ \E r \in Reqs, e \in OneEmail : signupStart(r, e, "Passw0rd", Undefined, "freelancer")
    \/ \E r \in Reqs, e \in OneEmail : loginStart(r, e, "Passw0rd")
    \/ \E r \in Reqs : SignupCore(r) \/ LoginSteps(r)
    \/ Tick(1)

SpecLoginClock == Init /\ [][NextLoginClock]_vars

\* MaxReqs signups and verifyEmail calls while the clock advances, by a
\* moment or by the lifetime of a verification token
NextExpiry ==
    \/ \E r \in Reqs, e \in OneEmail : signupStart(r, e, "Passw0rd", Undefined, "freelancer")
    \/ \E r \in Reqs, t \in VerifyTokens : verifyStart(r, t)
    \/ \E r \in Reqs : SignupCore(r) \/ VerifySteps(r) \/ verifyExpired(r)
    \/ \E d \in TickSteps : Tick(d)

SpecExpiry == Init /\ [][NextExpiry]_vars

\* JWT_REFRESH_EXPIRE: unset ('30d'), or set to a longer window ('90d')
RefreshWindows == {JwtRefreshExpire, 3 * JwtRefreshExpire}

InitConfigured ==
    /\ EmptyStore
    /\ jwtRefreshExpire \in RefreshWindows
    /\ nodeEnv = "production"

\* the only signup of a run arrives
signupFirst(r, email) ==
    /\ calls = {}
    /\ signupStart(r, email, "Passw0rd", Undefined, "freelancer")

\* a signup that runs alone
SignupAlone(r) ==
    \/ signupBegin(r)
    \/ signupSelect(r)
    \/ signupInsertUser(r)
    \/ signupInsertToken(r)
    \/ signupCommit(r)
    \/ signupInsertRefresh(r)

\* one signup, then refreshAccessToken and logout with its token, a made-up
\* token or none, while the clock advances by the lifetime of a refresh row
NextRefresh ==
    \/ \E r \in Reqs, e \in OneEmail : signupFirst(r, e)
    \/ \E r \in Reqs, p \in RefreshInputs \cup {{}} : refreshStart(r, p)
    \/ \E r \in Reqs, t \in refreshTokens : logoutStart(r, {t.token})
    \/ \E r \in Reqs : SignupAlone(r) \/ RefreshSteps(r) \/ logoutDelete(r)
    \/ Tick(RefreshRowTTL)
    \/ \E r \in Reqs : Recycle(r)

SpecRefresh == InitConfigured /\ [][NextRefresh]_vars

\* one signup, then login, refreshAccessToken and logout of that user within
\* one clock second
NextSession ==
    \/ \E r \in Reqs, e \in OneEmail : signupFirst(r, e)
    \/ \E r \in Reqs, e \in OneEmail : loginStart(r, e, "Passw0rd")
    \/ \E r \in Reqs, p \in RefreshInputs : refreshStart(r, p)
    \/ \E r \in Reqs, p \in RefreshInputs \cup {{}} : logoutStart(r, p)
    \/ \E r \in Reqs : SignupAlone(r) \/ LoginSteps(r) \/ RefreshSteps(r) \/ logoutDelete(r)
    \/ \E r \in Reqs : Recycle(r)

SpecSession == Init /\ [][NextSession]_vars

\* the access token signup and login hand out together with a refresh token:
\* both are signed in the same synchronous block, for the same user
AccessOf(rt) ==
    {[kind |-> "access", userId |-> u.id, email |-> u.email, userType |-> u.user_type,
      iat |-> rt.iat, exp |-> rt.iat + JwtExpire] : u \in {x \in users : x.id = rt.userId}}

\* the access tokens clients hold
AccessInputs ==
    UNION {AccessOf(t.token) : t \in refreshTokens} \cup UNION {AccessOf(t) : t \in revoked}

NoHeader == [scheme |-> "none", token |-> {}]
Bearer(tokens) == [scheme |-> "Bearer", token |-> tokens]

\* authorization headers: none, 'Bearer ' with a made-up token, with a
\* refresh token (signed with the other secret), with an access token
Headers ==
    {NoHeader, Bearer({ForgedToken})}
        \cup {Bearer({t}) : t \in AccessInputs}
        \cup {Bearer({t.token}) : t \in refreshTokens}

\* the clock steps to just before and to just past the expiry of an access
\* token signed at the start
AccessTickSteps == {JwtExpire * UnitsPerSecond - 1, 2}

\* GET /me up to its response
GetMeSteps(r) ==
    \/ authMiddleware(r)
    \/ getMeEnter(r)
    \/ getMeSelect(r)

\* one signup, then GET /me with every kind of header while the clock passes
\* the access token's expiry
NextAccess ==
    \/ \E r \in Reqs, e \in OneEmail : signupFirst(r, e)
    \/ \E r \in Reqs, h \in Headers : routeStart(r, "GET /me", h, <<>>)
    \/ \E r \in Reqs : SignupAlone(r) \/ GetMeSteps(r)
    \/ \E d \in AccessTickSteps : Tick(d)
    \/ \E r \in Reqs : Recycle(r)

SpecAccess == Init /\ [][NextAccess]_vars

\* one signup, then GET /me with every kind of header while the refresh token
\* is logged out or not and the clock advances by an access token's lifetime
NextStateless ==
    \/ \E r \in Reqs, e \in OneEmail : signupFirst(r, e)
    \/ \E r \in Reqs, h \in Headers : routeStart(r, "GET /me", h, <<>>)
    \/ \E r \in Reqs, t \in refreshTokens : logoutStart(r, {t.token})
    \/ \E r \in Reqs : SignupAlone(r) \/ logoutDelete(r) \/ GetMeSteps(r)
    \/ Tick(JwtExpire * UnitsPerSecond)
    \/ \E r \in Reqs : Recycle(r)

SpecStateless == Init /\ [][NextStateless]_vars

\* request bodies of POST /profile: an empty object and one whose fullName
\* has a single character; a request body of PATCH /profile
PostBodies == {<<>>, [fullName |-> "A"]}
PatchBody == [displayName |-> "d"]
RouteHeaders == {NoHeader, Bearer({ForgedToken})} \cup {Bearer({t}) : t \in AccessInputs}

\* the middleware and handler entries of the user routes
RouteSteps(r) ==
    \/ authMiddleware(r)
    \/ \E allowed \in BOOLEAN : profileLimiter(r, allowed)
    \/ validate(r)
    \/ createEnter(r)
    \/ updateEnter(r)
    \/ getMeEnter(r)
    \/ getMeSelect(r)

\* the signup response has been delivered; its slot takes the next request
signupDelivered(r) ==
    /\ req[r].op = "signup"
    /\ Recycle(r)

\* between two requests the clock advances by the lifetime of an access token
tokenAges ==
    /\ users # {}
    /\ \A r \in Reqs : req[r].op # "signup" /\ req[r].pc \in {"idle", "done"}
    /\ Tick(JwtExpire * UnitsPerSecond)

\* one signup, then MaxReqs requests of the three user routes with and
\* without a valid access token, the clock advancing between them
NextRoutes ==
    \/ \E r \in Reqs, e \in OneEmail : signupFirst(r, e)
    \/ \E r \in Reqs, h \in RouteHeaders : routeStart(r, "GET /me", h, <<>>)
    \/ \E r \in Reqs, h \in RouteHeaders, b \in PostBodies : routeStart(r, "POST /profile", h, b)
    \/ \E r \in Reqs, h \in RouteHeaders : routeStart(r, "PATCH /profile", h, PatchBody)
    \/ \E r \in Reqs : SignupAlone(r) \/ signupDelivered(r)
    \/ \E r \in Reqs : RouteSteps(r) \/ CreateSteps(r) \/ UpdateSteps(r)
    \/ tokenAges

SpecRoutes == Init /\ [][NextRoutes]_vars

\* two accounts: one that gave a name at signup and one that did not
ProfileUsers ==
    {[email |-> <<"a", "@", "x">>, fullName |-> "Al"],
     [email |-> <<"b", "@", "x">>, fullName |-> Undefined]}

\* validated bodies of PATCH /profile: no field, and two of the three fields
UpdateData == {<<>>, [displayName |-> "d", skills |-> <<"js">>]}

\* a signup with an email no earlier signup used
signupOnce(r, i) ==
    /\ \A c \in calls : c.op = "signup" => c.key # toLowerCase(i.email)
    /\ signupStart(r, i.email, "Passw0rd", i.fullName, "freelancer")

\* a signup that no other signup of its email overlaps
SignupSolo(r) ==
    \/ SignupAlone(r)
    \/ signupInsertProfile(r)

\* a createProfile that no other createProfile of its user overlaps
CreateSolo(r) ==
    \/ createBegin(r)
    \/ createSelect(r)
    \/ createRollbackPre(r)
    \/ createFetchPre(r)
    \/ createInsert(r)
    \/ createCommit(r)

\* between two requests the clock advances by one unit
idleTick ==
    /\ \A r \in Reqs : req[r].pc \in {"idle", "done"}
    /\ Tick(1)

\* the two accounts sign up, then MaxReqs createProfile and updateProfile
\* calls of either, the clock advancing between requests
NextUpdate ==
    \/ \E r \in Reqs, i \in ProfileUsers : signupOnce(r, i)
    \/ \E r \in Reqs, u \in UserIds : createStart(r, u, [skills |-> <<>>])
    \/ \E r \in Reqs, u \in UserIds, d \in UpdateData : updateStart(r, u, d)
    \/ \E r \in Reqs : SignupSolo(r) \/ signupDelivered(r)
    \/ \E r \in Reqs : CreateSolo(r) \/ UpdateSteps(r)
    \/ idleTick

SpecUpdate == Init /\ [][NextUpdate]_vars

\* the two accounts sign up, then MaxReqs createProfile calls, with and
\* without optional fields, and updateProfile calls of either
NextComplete ==
    \/ \E r \in Reqs, i \in ProfileUsers : signupOnce(r, i)
    \/ \E r \in Reqs, u \in UserIds, d \in CreateInputs : createStart(r, u, d)
    \/ \E r \in Reqs, u \in UserIds, d \in UpdateData : updateStart(r, u, d)
    \/ \E r \in Reqs : SignupSolo(r) \/ signupDelivered(r)
    \/ \E r \in Reqs : CreateSolo(r) \/ UpdateSteps(r)

SpecComplete == Init /\ [][NextComplete]_vars

\* process.env.NODE_ENV
NodeEnvs == {"development", "production"}

InitEnv ==
    /\ EmptyStore
    /\ jwtRefreshExpire = JwtRefreshExpire
    /\ nodeEnv \in NodeEnvs

\* signup and createProfile whose storage calls may fail, in either mode
NextFaultEnv ==
    \/ \E r \in Reqs, e \in OneEmail : signupStart(r, e, "Passw0rd", Undefined, "freelancer")
    \/ \E r \in Reqs, u \in users : createStart(r, u.id, [skills |-> <<>>])
    \/ \E r \in Reqs : SignupCore(r)
    \/ \E r \in Reqs : CreateSteps(r)
    \/ \E r \in Reqs : Fault(r)
    \/ \E r \in Reqs : signupDelivered(r)

SpecFaultEnv == InitEnv /\ [][NextFaultEnv]_vars

\* req.params.id: the id of a user, of a profile, a uuid no row has, and a
\* text that is no uuid
UnknownUuid == <<"u", 0>>
NotAUuid == <<"me">>
LookupKeys ==
    {u.id : u \in users} \cup {p.id : p \in profiles} \cup {UnknownUuid, NotAUuid}

\* two users, one with a seeded profile; the other creates one; lookups
NextLookup ==
    \/ \E r \in Reqs, i \in ProfileUsers : signupOnce(r, i)
    \/ \E r \in Reqs, u \in users : createStart(r, u.id, [skills |-> <<>>])
    \/ \E r \in Reqs, k \in LookupKeys : getProfileByIdStart(r, k)
    \/ \E r \in Reqs : SignupSolo(r)
    \/ \E r \in Reqs : CreateSolo(r)
    \/ \E r \in Reqs : getProfileByIdSelect(r)
    \/ \E r \in Reqs : Recycle(r)

SpecLookup == Init /\ [][NextLookup]_vars

\* a user without a seeded profile creates one from either body and looks
\* profiles up by id
NextRoundTrip ==
    \/ \E r \in Reqs, e \in OneEmail : signupFirst(r, e)
    \/ \E r \in Reqs, u \in users, d \in CreateInputs : createStart(r, u.id, d)
    \/ \E r \in Reqs, p \in profiles : getProfileByIdStart(r, p.id)
    \/ \E r \in Reqs : SignupAlone(r)
    \/ \E r \in Reqs : CreateSolo(r)
    \/ \E r \in Reqs : getProfileByIdSelect(r)
    \/ \E r \in Reqs : signupDelivered(r)

SpecRoundTrip == Init /\ [][NextRoundTrip]_vars

\* between two requests the clock advances by the lifetime of a
\* refresh-token row
rowAges ==
    /\ \A r \in Reqs : req[r].pc \in {"idle", "done"}
    /\ Tick(RefreshRowTTL)

\* one signup, then every other operation on what the signup stored, while
\* the refresh-token row passes its expiry
NextFrame ==
    \/ \E r \in Reqs, e \in OneEmail : signupFirst(r, e)
    \/ \E r \in Reqs, u \in users : loginStart(r, u.email, "Passw0rd")
    \/ \E r \in Reqs, t \in evTokens : verifyStart(r, t.token)
    \/ \E r \in Reqs, u \in users : createStart(r, u.id, [skills |-> <<>>])
    \/ \E r \in Reqs, u \in users : updateStart(r, u.id, PatchBody)
    \/ \E r \in Reqs, u \in users : getProfileByIdStart(r, u.id)
    \/ \E r \in Reqs, t \in refreshTokens : refreshStart(r, {t.token})
    \/ \E r \in Reqs, t \in refreshTokens : logoutStart(r, {t.token})
    \/ \E r \in Reqs : SignupAlone(r) \/ LoginSteps(r) \/ VerifySteps(r) \/ verifyExpired(r)
    \/ \E r \in Reqs : CreateSolo(r) \/ UpdateSteps(r) \/ getProfileByIdSelect(r)
    \/ \E r \in Reqs : RefreshSteps(r) \/ logoutDelete(r)
    \/ rowAges
    \/ \E r \in Reqs : signupDelivered(r)

SpecFrame == InitConfigured /\ [][NextFrame]_vars

\* ------------------------------------------------------------------ claims
Done(r) == req[r].pc = "done"

\* C1: in every reachable state, whatever signups (with or without
\* fullName), createProfile and updateProfile calls have interleaved, no two
\* committed profile rows have the same user_id.
C1_OneProfilePerUser ==
    \A p, q \in profiles : p.user_id = q.user_id => p = q

\* C1 witness: a createProfile that passed its pre-check lost the race and was
\* stopped by the constraint on a committed profile of the same user.
C1_Witness ==
    \E r \in Reqs : /\ req[r].op = "createProfile"
                    /\ req[r].errAt = "c_insert"
                    /\ req[r].code = "23505"
                    /\ \E p \in profiles : p.user_id = req[r].userId

\* the two createProfile calls r and o are the only ones ever made for their
\* user, and the user had no profile when each of them arrived
OnlyTwoCreates(r, o) ==
    /\ r # o
    /\ req[r].op = "createProfile" /\ req[o].op = "createProfile"
    /\ req[r].userId = req[o].userId
    /\ req[r].g /\ req[o].g
    /\ {c.id : c \in {d \in calls : d.op = "createProfile" /\ d.key = req[r].userId}}
          = {req[r].id, req[o].id}

\* C2: of two createProfile calls for one user who had no profile, once both
\* have answered, one answered 201 with the row it inserted and the other 409
\* with that same row; never 201 twice, 409 twice, or a 500.
C2_OneCreatedOneConflict ==
    \A r, o \in Reqs :
        (OnlyTwoCreates(r, o) /\ Done(r) /\ Done(o)) =>
            /\ {req[r].res.status, req[o].res.status} = {201, 409}
            /\ req[r].res.data = req[o].res.data
            /\ Cardinality(req[r].res.data) = 1
            /\ req[r].res.data \subseteq profiles
            /\ \A p \in req[r].res.data :
                   /\ p.user_id = req[r].userId
                   /\ p.id \in {<<"p", req[r].id>>, <<"p", req[o].id>>}

\* C2 witness: both calls passed the pre-check, and the loser was answered
\* from the catch block after the unique violation.
C2_Witness ==
    \E r, o \in Reqs :
        /\ OnlyTwoCreates(r, o) /\ Done(r) /\ Done(o)
        /\ req[r].res.status = 201
        /\ req[o].res.status = 409 /\ req[o].code = "23505"

\* the two signup calls r and o are the only ones ever made for their
\* normalized email, and no user had that email when each of them arrived
OnlyTwoSignups(r, o) ==
    /\ r # o
    /\ req[r].op = "signup" /\ req[o].op = "signup"
    /\ toLowerCase(req[r].email) = toLowerCase(req[o].email)
    /\ req[r].g /\ req[o].g
    /\ {c.id : c \in {d \in calls : d.op = "signup" /\ d.key = toLowerCase(req[r].email)}}
          = {req[r].id, req[o].id}

\* C3: of two signup calls with the same email and no such user beforehand,
\* once both have answered, one answered 201 and the other 409
\* DuplicateEmail; a unique violation of the user insert is a 409, not a 500.
C3_OneSignupOneDuplicate ==
    \A r, o \in Reqs :
        (OnlyTwoSignups(r, o) /\ Done(r) /\ Done(o)) =>
            {req[r].res.status, req[o].res.status} = {201, 409}

\* C4: no two committed users have emails that are equal up to letter case,
\* and a login resolves to the user whose email equals the given one up to
\* letter case whenever there is one.
C4_EmailUniqueIgnoringCase ==
    /\ \A u, v \in users : toLowerCase(u.email) = toLowerCase(v.email) => u = v
    /\ \A r \in Reqs :
          (req[r].op = "login" /\ req[r].pc # "l_select") =>
              /\ ~req[r].g
              /\ \A u \in req[r].user : u.email = toLowerCase(req[r].email)

\* C4 witness: with a user registered, a signup with a case variant of the
\* email was refused and a login with a case variant found the user.
C4_Witness ==
    \E r, o \in Reqs :
        /\ req[r].op = "signup" /\ Done(r) /\ req[r].res.status >= 400
        /\ req[r].email # toLowerCase(req[r].email)
        /\ req[o].op = "login" /\ Done(o) /\ req[o].res.status = 200
        /\ req[o].email # toLowerCase(req[o].email)
        /\ req[o].user \subseteq users

\* C5: whenever an operation has answered with an error status, it has
\* committed no write: the committed state is the one it found.
C5_ErrorLeavesStateUnchanged ==
    \A r \in Reqs :
        (Done(r) /\ req[r].res.status >= 400) => req[r].wrote = NoWrites

\* no committed table holds a row of the signup that drew the number id
NoRowOf(id) ==
    /\ \A u \in users : u.id # <<"u", id>>
    /\ \A e \in evTokens : e.user_id # <<"u", id>>
    /\ \A p \in profiles : p.user_id # <<"u", id>>
    /\ \A t \in refreshTokens : t.user_id # <<"u", id>>

\* C6: a signup that failed after BEGIN and before COMMIT completed has no
\* row in any committed table, then and ever after.
C6_FailedSignupLeavesNoRow ==
    \A id \in aborted : NoRowOf(id)

\* C6 witness: the user row was inserted in the transaction, the token
\* insert failed, the catch block rolled back and answered, and another
\* signup has committed since.
C6_Witness ==
    \E r \in Reqs :
        /\ req[r].op = "signup" /\ Done(r)
        /\ req[r].errAt = "s_insert_token"
        /\ req[r].id \in aborted
        /\ req[r].res.status = 500
        /\ users # {}

\* C7: a signup that answered 201 has committed exactly one user row, with
\* the normalized email and email_verified = false, exactly one verification
\* token row expiring 24 hours after a moment of the call, exactly one
\* refresh-token row, a profile row exactly when fullName was given, all of
\* them its own user's, and has updated and deleted nothing.
C7_SignupAddsExactlyItsRows ==
    \A r \in Reqs :
        (req[r].op = "signup" /\ Done(r) /\ req[r].res.status = 201) =>
            LET uid == <<"u", req[r].id>>
                w == req[r].wrote
            IN /\ Cardinality(w.users) = 1
               /\ \A u \in w.users : /\ u.id = uid
                                     /\ u.email = toLowerCase(req[r].email)
                                     /\ u.email_verified = FALSE
               /\ Cardinality(w.ev) = 1
               /\ \A e \in w.ev : /\ e.user_id = uid
                                  /\ e.expires_at - VerifyTTL >= req[r].t0
                                  /\ e.expires_at - VerifyTTL <= now
               /\ Cardinality(w.rt) = 1
               /\ \A t \in w.rt : t.user_id = uid
               /\ Cardinality(w.prof) = (IF req[r].fullName = Undefined THEN 0 ELSE 1)
               /\ \A p \in w.prof : p.user_id = uid /\ p.full_name = req[r].fullName
               /\ w.updUsers = {} /\ w.updProf = {} /\ w.delEv = {} /\ w.delRt = {}
               /\ {u \in users : u.id = uid} = w.users
               /\ {e \in evTokens : e.user_id = uid} = w.ev
               /\ {t \in refreshTokens : t.user_id = uid} = w.rt
               /\ {p \in profiles : p.user_id = uid} = w.prof

\* C7 witness: a signup with a fullName answered 201 while the clock moved
\* during the call and another user's rows were already committed.
C7_Witness ==
    \E r \in Reqs :
        /\ req[r].op = "signup" /\ Done(r) /\ req[r].res.status = 201
        /\ req[r].fullName # Undefined
        /\ req[r].t0 < now
        /\ \E u \in users : u.id # <<"u", req[r].id>>
        /\ \E e \in evTokens : e.user_id # <<"u", req[r].id>>

\* the login r was refused because no user has the email
LoginUnknownEmail(r) ==
    /\ req[r].op = "login" /\ Done(r) /\ req[r].code = ""
    /\ req[r].user = {}

\* the login r was refused because the password is wrong
LoginWrongPassword(r) ==
    /\ req[r].op = "login" /\ Done(r) /\ req[r].code = ""
    /\ req[r].user # {}
    /\ \A u \in req[r].user : ~bcryptCompare(req[r].password, u.password_hash)

\* C8: a login with an unknown email and a login with a wrong password get
\* the same status 401 and the same body, and neither writes anything.
C8_LoginFailuresIndistinguishable ==
    \A r, o \in Reqs :
        (LoginUnknownEmail(r) /\ LoginWrongPassword(o)) =>
            /\ req[r].res = req[o].res
            /\ req[r].res.status = 401
            /\ req[r].wrote = NoWrites /\ req[o].wrote = NoWrites

\* C8 witness: both refusals stand side by side.
C8_Witness ==
    \E r, o \in Reqs : LoginUnknownEmail(r) /\ LoginWrongPassword(o)

\* the login r had the right password for an existing user
LoginRightCredentials(r) ==
    /\ req[r].op = "login"
    /\ req[r].user # {}
    /\ \A u \in req[r].user : bcryptCompare(req[r].password, u.password_hash)

\* C9: every login with the right credentials that has answered, answered
\* 200 and stored one refresh-token row, also when it runs in the clock
\* second of the signup or of another login of the user.
C9_RightCredentialsSucceed ==
    \A r \in Reqs :
        (LoginRightCredentials(r) /\ Done(r)) =>
            /\ req[r].res.status = 200
            /\ Cardinality(req[r].wrote.rt) = 1

\* C10: a verifyEmail that arrives with a token an earlier verifyEmail has
\* succeeded with answers 400 'Invalid verification token' and writes nothing.
C10_ConsumedTokenIsInvalid ==
    \A r \in Reqs :
        (req[r].op = "verifyEmail" /\ req[r].g /\ Done(r)) =>
            /\ req[r].res = Respond(400, "Invalid verification token", {})
            /\ req[r].wrote = NoWrites

\* C10 witness: the token was verified, and a later call with it has answered.
C10_Witness ==
    \E r \in Reqs :
        /\ req[r].op = "verifyEmail" /\ req[r].g /\ Done(r)
        /\ req[r].token \in consumed
        /\ \E u \in users : u.email_verified

\* C11: among the verifyEmail calls made with one token, transactions
\* overlapping or not, at most one answers with success.
C11_TokenConsumedOnce ==
    \A r, o \in Reqs :
        (/\ r # o
         /\ req[r].op = "verifyEmail" /\ req[o].op = "verifyEmail"
         /\ req[r].token = req[o].token
         /\ Done(r) /\ Done(o)) =>
            ~(req[r].res.status = 200 /\ req[o].res.status = 200)

\* the verifyEmail r found its token row and compared the expiry
VerifyCompared(r) ==
    /\ req[r].op = "verifyEmail"
    /\ req[r].pc \notin {"v_connect", "v_select", "v_rollback_invalid"}
    /\ ~(Done(r) /\ req[r].res.message = "Invalid verification token")

\* the verifyEmail r is refused, or about to be refused, as expired
VerifyRefusedExpired(r) ==
    \/ req[r].pc = "v_rollback_expired"
    \/ Done(r) /\ req[r].res = Respond(400, "Verification token has expired", {})

\* C12: a verifyEmail that found its token row is refused as expired (400)
\* exactly when the stored expiry is earlier than the time of the check, so
\* not at the expiry instant itself; the refused call writes nothing.
C12_ExpiredOnlyPastExpiry ==
    \A r \in Reqs :
        VerifyCompared(r) =>
            /\ VerifyRefusedExpired(r) <=> req[r].evExp < req[r].tb
            /\ (Done(r) /\ VerifyRefusedExpired(r)) => req[r].wrote = NoWrites

\* C12 witness: a call was refused a moment past the expiry; the token row
\* and the unverified user are still there.
C12_Witness ==
    \E r \in Reqs :
        /\ VerifyCompared(r) /\ Done(r) /\ VerifyRefusedExpired(r)
        /\ req[r].tb = req[r].evExp + 1
        /\ \E e \in evTokens : /\ e.token = req[r].token
                                /\ \E u \in users : u.id = e.user_id /\ ~u.email_verified

\* the refreshAccessToken r has answered
Refreshed(r) == req[r].op = "refreshAccessToken" /\ Done(r)

\* C13: a refreshAccessToken answers 200 with one new access token only if
\* the presented token is signed with the refresh secret, its encoded expiry
\* had not passed when it was verified, a row with that token string and the
\* encoded user id was found and the row's expiry had not passed when it was
\* compared; a verified token without a row is answered 401 'Invalid refresh
\* token', a row whose expiry had passed 401 'Refresh token has expired'.
C13_RefreshOnlyForLiveRow ==
    \A r \in Reqs :
        Refreshed(r) =>
            /\ req[r].res.status \in {200, 400, 401}
            /\ req[r].res.status = 400 <=> req[r].presented = {}
            /\ \A t \in req[r].presented :
                  /\ req[r].res.status = 200 =>
                        /\ t.kind = "refresh"
                        /\ Seconds(req[r].t0) < t.exp
                        /\ \E row \in req[r].row :
                              /\ row.token = t /\ row.user_id = t.userId
                              /\ row.expires_at >= req[r].tb
                        /\ \E a \in req[r].res.data :
                              /\ req[r].res.data = {a}
                              /\ a.kind = "access" /\ a.userId = t.userId
                  /\ (t.kind = "refresh" /\ Seconds(req[r].t0) < t.exp /\ req[r].row = {}) =>
                        req[r].res = Respond(401, "Invalid refresh token", {})
                  /\ (\E row \in req[r].row : row.expires_at < req[r].tb) =>
                        req[r].res = Respond(401, "Refresh token has expired", {})

\* C13 witness: one call was answered 200 at the row's expiry instant, and a
\* later one was refused because the row's expiry had passed.
C13_Witness ==
    \E r, o \in Reqs :
        /\ Refreshed(r) /\ req[r].res.status = 200
        /\ \E row \in req[r].row : row.expires_at = req[r].tb
        /\ Refreshed(o) /\ req[o].res.message = "Refresh token has expired"

\* C14: a refreshAccessToken that arrives with a token for which a logout
\* has answered is answered 401, and a logout deletes no refresh-token row
\* but the one with its token.
C14_LoggedOutTokenRefused ==
    \A r \in Reqs :
        /\ (Refreshed(r) /\ req[r].g) => req[r].res.status = 401
        /\ (req[r].op = "logout" /\ Done(r)) =>
              /\ \A t \in req[r].wrote.delRt : {t.token} = req[r].presented
              /\ req[r].wrote = [NoWrites EXCEPT !.delRt = req[r].wrote.delRt]

\* the step in which the logout r answers
LogoutAnswers(r) ==
    /\ req'[r].op = "logout"
    /\ req[r].pc # "done" /\ req'[r].pc = "done"

\* C15: every logout answers 200, and the step in which it answers removes
\* the refresh-token rows with its token and changes nothing else: nothing
\* at all without a token or without such a row, so a second logout with
\* the same token leaves the state of the first.
C15_LogoutIdempotent ==
    [][\A r \in Reqs :
          LogoutAnswers(r) =>
              /\ req'[r].res = Respond(200, "Logged out successfully", {})
              /\ refreshTokens' = {t \in refreshTokens : {t.token} # req'[r].presented}
              /\ UNCHANGED <<users, profiles, evTokens>>]_vars

\* C15 witness: two logouts with one token have answered 200; the first
\* deleted the row, the second found none and wrote nothing.
C15_Witness ==
    \E r, o \in Reqs :
        /\ req[r].op = "logout" /\ Done(r) /\ req[r].res.status = 200
        /\ req[o].op = "logout" /\ Done(o) /\ req[o].res.status = 200
        /\ req[r].presented = req[o].presented
        /\ req[r].wrote.delRt # {}
        /\ req[o].wrote = NoWrites /\ req[o].g

\* a step of the refreshAccessToken r
RefreshActs(r) ==
    /\ req'[r].op = "refreshAccessToken"
    /\ req'[r] # req[r]

\* C16: no step of a refreshAccessToken changes a table, whether the call
\* succeeds or fails, and a successful call carries one access token and
\* nothing else.
C16_RefreshChangesNothing ==
    /\ [][\A r \in Reqs :
            RefreshActs(r) => UNCHANGED <<users, profiles, evTokens, refreshTokens>>]_vars
    /\ [](\A r \in Reqs :
            Refreshed(r) =>
                /\ req[r].wrote = NoWrites
                /\ req[r].res.status = 200 =>
                      /\ Cardinality(req[r].res.data) = 1
                      /\ \A a \in req[r].res.data : a.kind = "access")

\* C16 witness: two refreshes with one token have both answered 200, and the
\* row of the token is still stored.
C16_Witness ==
    \E r, o \in Reqs :
        /\ r # o
        /\ Refreshed(r) /\ req[r].res.status = 200
        /\ Refreshed(o) /\ req[o].res.status = 200
        /\ req[r].presented = req[o].presented
        /\ \E t \in refreshTokens : {t.token} = req[r].presented

\* C17: whatever JWT_REFRESH_EXPIRE is set to, every stored refresh-token
\* row expires at the instant encoded in its token.
C17_StoredExpiryIsEncodedExpiry ==
    \A t \in refreshTokens : t.expires_at = t.token.exp * UnitsPerSecond

\* a request of a user route that authMiddleware has decided
AuthChecked(r) == req[r].route # "none" /\ req[r].trail # <<>>

\* a request of a user route whose protected handler was invoked
HandlerInvoked(r) == req[r].route # "none" /\ Len(req[r].trail) > 1

\* authMiddleware answered r with this 401
AuthRefused(r, message) ==
    /\ Done(r)
    /\ req[r].res = Respond(401, message, {})
    /\ req[r].identity = {}
    /\ req[r].trail = <<"authMiddleware">>

\* C18: a request that presents an access token before the token's expiry is
\* handed on with exactly the identity the token carries (user id, email, user
\* type); one that presents it past its expiry is answered 401 'Token
\* expired. Please login again.'; one that presents a token not signed as an
\* access token is answered 401 'Invalid token. Access denied.'; and the
\* protected handler is invoked only for a request of the first kind.
C18_AccessTokenLifetime ==
    \A r \in Reqs :
        /\ AuthChecked(r) /\ req[r].header.scheme = "Bearer" =>
              \A t \in req[r].header.token :
                  /\ t.kind = "access" /\ req[r].authAt < t.exp * UnitsPerSecond =>
                        req[r].identity = {[id |-> t.userId, email |-> t.email,
                                            userType |-> t.userType]}
                  /\ t.kind = "access" /\ req[r].authAt > t.exp * UnitsPerSecond =>
                        AuthRefused(r, "Token expired. Please login again.")
                  /\ t.kind # "access" => AuthRefused(r, "Invalid token. Access denied.")
        /\ HandlerInvoked(r) =>
              /\ req[r].header.scheme = "Bearer"
              /\ \E t \in req[r].header.token :
                    /\ t.kind = "access"
                    /\ req[r].authAt < t.exp * UnitsPerSecond
                    /\ \E u \in users : u.id = t.userId /\ req[r].userId = u.id

\* the same access token got its holder's data one clock unit before its
\* expiry and was refused one unit past it
C18_Witness ==
    \E r, o \in Reqs : \E t \in req[r].header.token :
        /\ req[o].header = req[r].header
        /\ t.kind = "access"
        /\ req[r].authAt = t.exp * UnitsPerSecond - 1
        /\ Done(r) /\ req[r].res.status = 200 /\ req[r].trail = <<"authMiddleware", "getMe">>
        /\ req[o].authAt = t.exp * UnitsPerSecond + 1
        /\ AuthRefused(o, "Token expired. Please login again.")

\* what authMiddleware did with r: handed it on, or the 401 it answered
AuthOutcome(r) ==
    IF req[r].identity # {} THEN [status |-> 0, message |-> "next", data |-> {}, error |-> {}]
    ELSE req[r].res

\* C19: two requests that present the same authorization header and are
\* checked by authMiddleware at the same clock reading get the same
\* accept/reject decision and the same identity, whatever the users,
\* profiles and refresh_tokens tables hold at either check.
C19_VerificationIsStateless ==
    \A r, o \in Reqs :
        /\ AuthChecked(r) /\ AuthChecked(o)
        /\ req[r].header = req[o].header
        /\ req[r].authAt = req[o].authAt
        => /\ AuthOutcome(r) = AuthOutcome(o)
           /\ req[r].identity = req[o].identity

\* the same access token was accepted with the same identity at the same
\* clock reading, once while its session's refresh row was stored and once
\* after logout had deleted it
C19_Witness ==
    \E r, o \in Reqs :
        /\ AuthChecked(r) /\ AuthChecked(o)
        /\ req[r].header = req[o].header
        /\ req[r].authAt = req[o].authAt
        /\ req[r].identity # {} /\ req[r].identity = req[o].identity
        /\ req[r].store[3] # {}
        /\ req[o].store[3] = {}

\* the access token r presents, verified against the clock of r's check
PresentsLiveAccessToken(r) ==
    /\ req[r].header.scheme = "Bearer"
    /\ \E t \in req[r].header.token :
          t.kind = "access" /\ Seconds(req[r].authAt) < t.exp

IsPrefix(s, t) == Len(s) <= Len(t) /\ \A i \in 1 .. Len(s) : s[i] = t[i]

\* C20: on the routes GET /me, POST /profile and PATCH /profile,
\* authMiddleware runs first and the handler (getMe, createProfile,
\* updateProfile) runs only for a request whose 'Bearer ' header carries an
\* access token that verified; any other request is answered 401 by
\* authMiddleware, never reaches a later middleware or the handler, issues no
\* storage call and writes nothing; on POST /profile the order is
\* authMiddleware, profileLimiter, validate, createProfile.
C20_HandlersBehindAuth ==
    \A r \in Reqs : req[r].route # "none" =>
        /\ req[r].trail # <<>> => req[r].trail[1] = "authMiddleware"
        /\ req[r].op \in {"getMe", "createProfile", "updateProfile"} =>
              /\ PresentsLiveAccessToken(r)
              /\ req[r].identity # {}
        /\ req[r].op = "getMe" => req[r].route = "GET /me"
        /\ req[r].op = "createProfile" => req[r].route = "POST /profile"
        /\ req[r].op = "updateProfile" => req[r].route = "PATCH /profile"
        /\ AuthChecked(r) /\ ~PresentsLiveAccessToken(r) =>
              /\ Done(r)
              /\ req[r].res.status = 401
              /\ req[r].trail = <<"authMiddleware">>
              /\ req[r].op = "route"
              /\ req[r].wrote = NoWrites
        /\ req[r].route = "POST /profile" =>
              IsPrefix(req[r].trail,
                       <<"authMiddleware", "profileLimiter", "validate", "createProfile">>)

\* a POST /profile with a live access token went through the four stages and
\* created the profile, while one without a header stopped at authMiddleware
C20_Witness ==
    \E r, o \in Reqs :
        /\ req[r].route = "POST /profile" /\ Done(r) /\ req[r].res.status = 201
        /\ req[r].trail = <<"authMiddleware", "profileLimiter", "validate", "createProfile">>
        /\ req[r].wrote.prof # {}
        /\ req[o].route = "POST /profile" /\ req[o].header = NoHeader
        /\ AuthRefused(o, "No token provided. Access denied.")
        /\ req[o].wrote = NoWrites

\* the step in which r's UPDATE runs and its 200 is sent
UpdateApplied(r) ==
    /\ req[r].op = "updateProfile"
    /\ req[r].pc = "u_update"
    /\ req'[r].pc = "done"
    /\ req'[r].res.status = 200

\* the value a column has after an update with this request data
After(data, f, prior) == IF f \in DOMAIN data THEN data[f] ELSE prior

\* C21: the step in which an updateProfile is applied replaces the caller's
\* profile row by one that has the request's value in every column whose
\* field the request contains, the prior value in every column whose field
\* is absent, completed_at set to the time of the update if it was null and
\* kept otherwise, updated_at set to the time of the update, and the same
\* id, user_id and created_at; every other user's row stays as it was and
\* no row is added or removed; the response carries the new row.
C21_UpdateTouchesOnlyGivenColumns ==
    [][\A r \in Reqs : UpdateApplied(r) =>
          /\ Cardinality(profiles') = Cardinality(profiles)
          /\ \A p \in profiles : p.user_id # req[r].userId => p \in profiles'
          /\ \A p \in profiles : p.user_id = req[r].userId =>
                \E q \in profiles' :
                    /\ q.id = p.id /\ q.user_id = p.user_id /\ q.created_at = p.created_at
                    /\ q.full_name = After(req[r].data, "fullName", p.full_name)
                    /\ q.display_name = After(req[r].data, "displayName", p.display_name)
                    /\ q.skills = After(req[r].data, "skills", p.skills)
                    /\ q.completed_at = (IF p.completed_at = {} THEN {now}
                                                                ELSE p.completed_at)
                    /\ q.updated_at = now
                    /\ req'[r].res.data = {q}]_vars

\* an update with displayName and skills, after the clock moved, kept the
\* full_name given at signup while another user's profile existed
C21_Witness ==
    \E r \in Reqs : \E q \in profiles :
        /\ req[r].op = "updateProfile" /\ Done(r) /\ req[r].res.status = 200
        /\ req[r].res.data = {q}
        /\ DOMAIN req[r].data = {"displayName", "skills"}
        /\ q.full_name = "Al" /\ q.display_name = "d" /\ q.skills = <<"js">>
        /\ q.updated_at > q.created_at
        /\ q.completed_at = {q.updated_at}
        /\ \E o \in profiles : o.user_id # q.user_id

\* the fields of a profile that updateProfile recognizes
ProfileFields == {"fullName", "displayName", "skills"}

\* C22: an updateProfile whose request has none of the recognized fields and
\* whose user has a profile row is answered 400 'No fields to update' and
\* writes nothing.
C22_EmptyUpdateRefused ==
    \A r \in Reqs :
        /\ req[r].op = "updateProfile" /\ Done(r)
        /\ DOMAIN req[r].data \cap ProfileFields = {}
        /\ req[r].res.status # 404
        => /\ req[r].res = Respond(400, "No fields to update", {})
           /\ req[r].wrote.updProf = {}

\* C23: no step of signup, createProfile or updateProfile changes or clears
\* a completed_at that is not null, and the step that applies an
\* updateProfile to a row whose completed_at is null sets it to the time of
\* that step.
C23_CompletedAtSetOnce ==
    [][/\ \A p \in profiles : p.completed_at # {} =>
              \E q \in profiles' : q.id = p.id /\ q.completed_at = p.completed_at
       /\ \A r \in Reqs : UpdateApplied(r) =>
              \A p \in profiles : p.user_id = req[r].userId /\ p.completed_at = {} =>
                  \E q \in profiles' : q.id = p.id /\ q.completed_at = {now}]_vars

\* a profile seeded at signup was completed by a first update and updated
\* again later
C23_Witness ==
    \E p \in profiles : \E t \in p.completed_at :
        p.created_at < t /\ t < p.updated_at

\* a step of the updateProfile request r
UpdateStep(r) == req[r].op = "updateProfile" /\ req'[r] # req[r]

\* C24: when the existence SELECT of an updateProfile finds no profile row
\* of the caller, the call is answered 404 'Profile not found. Please create
\* a profile first.' in that step, and when it finds one the call is not
\* answered 404; no step of an updateProfile adds a profile row.
C24_UpdateWithoutProfileNotFound ==
    [][\A r \in Reqs : UpdateStep(r) =>
          /\ req[r].pc = "u_select" =>
                IF \E p \in profiles : p.user_id = req[r].userId
                THEN req'[r].res.status # 404
                ELSE /\ req'[r].pc = "done"
                     /\ req'[r].res = Respond(404, "Profile not found. Please create a profile first.", {})
                     /\ profiles' = profiles
          /\ {p.id : p \in profiles'} = {p.id : p \in profiles}]_vars

\* a user without a profile called updateProfile with fields, got 404, and
\* still has no profile
C24_Witness ==
    \E r \in Reqs :
        /\ req[r].op = "updateProfile" /\ Done(r)
        /\ req[r].res.status = 404
        /\ DOMAIN req[r].data # {}
        /\ req[r].wrote = NoWrites
        /\ \E u \in users : u.id = req[r].userId
        /\ ~\E p \in profiles : p.user_id = req[r].userId

\* a profile row inserted by signup: it was given the number of its user
SeededRow(p) == \E i \in 1 .. MaxIds : p.id = <<"p", i>> /\ p.user_id = <<"u", i>>

\* C25: every createProfile answered for a user whose signup seeded a
\* profile is refused by the existence check: 409 'Profile already exists
\* for this user. Use PATCH /api/profile to update.' with that user's seeded
\* row as data, no write and never 201; and a step that changes a seeded
\* row is the step of an updateProfile of its user.
C25_SeededUserCannotCreate ==
    /\ [](\A r \in Reqs :
            /\ req[r].op = "createProfile" /\ Done(r)
            /\ \E p \in profiles : SeededRow(p) /\ p.user_id = req[r].userId
            => /\ req[r].res.status = 409
               /\ req[r].res.message =
                     "Profile already exists for this user. Use PATCH /api/profile to update."
               /\ \E q \in req[r].res.data :
                     /\ req[r].res.data = {q}
                     /\ SeededRow(q) /\ q.user_id = req[r].userId
               /\ req[r].wrote = NoWrites)
    /\ [][\A p \in profiles : SeededRow(p) /\ p \notin profiles' =>
              \E r \in Reqs : UpdateApplied(r) /\ req[r].userId = p.user_id]_vars

\* a user whose signup seeded a profile updated it and then called
\* createProfile, which returned the updated seeded row with 409
C25_Witness ==
    \E r \in Reqs : \E q \in profiles :
        /\ req[r].op = "createProfile" /\ Done(r) /\ req[r].res.status = 409
        /\ req[r].res.data = {q}
        /\ SeededRow(q) /\ q.display_name = "d" /\ q.completed_at # {}

\* some updateProfile was applied to the row with this id
EverUpdated(id) == \E r \in Reqs : id \in req[r].wrote.updProf

\* C26: a committed profile row that createProfile inserted has a non-null
\* completed_at, with or without optional fields, and a committed profile
\* row has a null completed_at exactly when signup seeded it and no
\* updateProfile has been applied to it.
C26_NullCompletedAtMeansUntouchedSeed ==
    /\ \A p \in profiles : ~SeededRow(p) => p.completed_at # {}
    /\ \A p \in profiles : p.completed_at = {} <=> SeededRow(p) /\ ~EverUpdated(p.id)

\* an untouched seed row with null completed_at next to a row that
\* createProfile inserted without optional fields, which is complete
C26_Witness ==
    \E p, q \in profiles :
        /\ SeededRow(p) /\ ~EverUpdated(p.id) /\ p.completed_at = {}
        /\ ~SeededRow(q) /\ q.full_name = Null /\ q.display_name = Null
        /\ q.completed_at = {q.created_at}

\* C27: a signup, verifyEmail or createProfile call never has more than one
\* storage connection in use at a time, and holds none once it has answered.
C27_OneConnectionPerOperation ==
    \A r \in Reqs : req[r].op \in {"signup", "verifyEmail", "createProfile"} =>
        /\ req[r].peak <= 1
        /\ Done(r) => ConnectionsHeld(r) = 0

\* the statuses of the named errors (400 validation, 401, 403, 404, 409,
\* 429, 500 InternalError)
NamedErrorStatuses == {400, 401, 403, 404, 409, 429, 500}

\* the awaits outside the handlers' catch blocks: a failure there is the
\* request's only storage failure
FirstFaultPcs == (CaughtPcs \cup UncaughtPcs \cup AnsweredPcs)
                 \ {"s_catch", "v_catch", "c_catch", "c_fetch_dup"}

\* C28: a request one of whose storage calls failed (connection, BEGIN, a
\* query, COMMIT or a ROLLBACK of the try block) has, once it is over, sent
\* one response with a named error status and has committed none of its
\* writes.
C28_FaultAnsweredByNamedError ==
    \A r \in Reqs :
        (Done(r) /\ req[r].code = "08006" /\ req[r].errAt \in FirstFaultPcs) =>
            /\ req[r].res # NoRes
            /\ req[r].res.status \in NamedErrorStatuses
            /\ req[r].wrote = NoWrites

\* the text of the storage error appears in the response
ExposesErrorText(r) ==
    \/ req[r].res.message = ErrorMessage(req[r].code)
    \/ ErrorMessage(req[r].code) \in req[r].res.error

\* C29: a request that answered after a storage call failed with an error
\* that is no constraint violation carries an opaque message, and the text
\* of the storage error appears in its response only in development mode,
\* and then only as the diagnostic field.
C29_StorageErrorTextOnlyInDevelopment ==
    \A r \in Reqs :
        (Done(r) /\ req[r].code = "08006" /\ req[r].res # NoRes) =>
            /\ req[r].res.message # ErrorMessage(req[r].code)
            /\ ExposesErrorText(r) => nodeEnv = "development"

\* the profiles whose own id or whose owner's id is k
Matching(k) == {p \in profiles : p.id = k \/ p.user_id = k}

\* d is a matching profile with its owner's email and account kind, and
\* nothing else of the owner
IsPublicProfileOf(d, k) ==
    \E p \in Matching(k), u \in users :
        /\ u.id = p.user_id
        /\ DOMAIN d = DOMAIN p \cup {"email", "user_type"}
        /\ \A f \in DOMAIN p : d[f] = p[f]
        /\ d.email = u.email /\ d.user_type = u.user_type

\* C30: the step in which getProfileById(k) answers gives 404 exactly when
\* no profile has k as its id or as its owner's id, otherwise 200 with such
\* a profile joined with its owner's email and account kind only, and it
\* leaves every table as it was.
C30_LookupByEitherKey ==
    [][\A r \in Reqs : getProfileByIdSelect(r) =>
          LET k == req[r].key
              res == req'[r].res
          IN /\ (Matching(k) = {}) <=> (res.status = 404)
             /\ Matching(k) # {} =>
                    /\ res.status = 200
                    /\ res.data # {}
                    /\ \A d \in res.data : IsPublicProfileOf(d, k)
             /\ UNCHANGED <<users, profiles, evTokens, refreshTokens>>]_vars

\* the profiles column that stores a field of the request body
ColumnOf(f) ==
    CASE f = "fullName" -> "full_name"
      [] f = "displayName" -> "display_name"
      [] f = "skills" -> "skills"

\* what an optional field reads as when the body did not carry it
DefaultOf(f) == IF f = "skills" THEN <<>> ELSE Null

\* the lookup g answered with the profile that the create c answered with
ReadsBack(c, g) ==
    /\ req[c].op = "createProfile" /\ Done(c) /\ req[c].res.status = 201
    /\ req[g].op = "getProfileById" /\ Done(g) /\ req[g].res.status = 200
    /\ req[g].key = <<"p", req[c].id>>

\* C31: a getProfileById with the id of a profile that a createProfile has
\* just made returns, for every field of the submitted body, the submitted
\* value, and for every absent field its default.
C31_CreateThenGetRoundTrip ==
    \A c, g \in Reqs : ReadsBack(c, g) =>
        \A d \in req[g].res.data : \A f \in {"fullName", "displayName", "skills"} :
            d[ColumnOf(f)] = IF f \in DOMAIN req[c].data THEN req[c].data[f]
                                                        ELSE DefaultOf(f)

\* the email-verification-token rows of the user u
TokensOf(u) == {t \in evTokens : t.user_id = u.id}

\* the user u is unverified before the step and verified after it
BecomesVerified(u) ==
    /\ ~u.email_verified
    /\ \E v \in users' : v.id = u.id /\ v.email_verified

\* C32: in every committed state a user is verified exactly when no
\* verification-token row of that user exists; a verified user stays
\* verified; and a user becomes verified only in the COMMIT of a verifyEmail
\* that had found that user's own token unexpired, the same step removing
\* that token row.
C32_VerifiedIffNoToken ==
    /\ [](\A u \in users : u.email_verified <=> TokensOf(u) = {})
    /\ [][\A u \in users :
             /\ u.email_verified => \E v \in users' : v.id = u.id /\ v.email_verified
             /\ BecomesVerified(u) =>
                    \E r \in Reqs :
                        /\ verifyCommit(r)
                        /\ req[r].userId = u.id
                        /\ ~Expired(req[r].evExp, req[r].tb)
                        /\ \E t \in TokensOf(u) : t.token = req[r].token
                        /\ TokensOf(u) # {} /\ \A t \in evTokens' : t.user_id # u.id]_vars

\* a verifyEmail has committed: its user is verified and has no token row
\* left, while the request that verified it has answered 200
C32_Witness ==
    \E r \in Reqs, u \in users :
        /\ req[r].op = "verifyEmail" /\ Done(r) /\ req[r].res.status = 200
        /\ req[r].userId = u.id
        /\ u.email_verified /\ TokensOf(u) = {}

\* r holds a pooled connection and waits for pool.query to get another one
WaitsForSecondConnection(r) ==
    /\ req[r].op = "createProfile"
    /\ Holds(r)
    /\ req[r].pc \in {"c_fetch_pre", "c_fetch_dup"}

\* C33: the pool is never exhausted by createProfile handlers each of which
\* holds one connection while waiting for a second one to fetch the
\* existing profile.
C33_PoolNotExhaustedByWaiters ==
    ~(/\ FreeClients = 0
      /\ \A r \in Reqs : Holds(r) => WaitsForSecondConnection(r))

\* the refresh-token rows that the step removes
RemovedRefreshRows == refreshTokens \ refreshTokens'

\* C34: a step removes a refresh-token row only when it is the DELETE of a
\* logout that presented the token of that row; every step of signup,
\* login, verifyEmail, refreshAccessToken, the profile operations and the
\* clock leaves every stored refresh-token row in place.
C34_OnlyLogoutRemovesRefreshRows ==
    [][\A t \in RemovedRefreshRows :
          \E r \in Reqs : /\ logoutDelete(r)
                          /\ req[r].op = "logout"
                          /\ req[r].presented = {t.token}]_vars

\* C34 witness: a refreshAccessToken found its row expired and answered 401,
\* a login of the same user has answered 200, and the expired row is still
\* stored.
C34_Witness ==
    \E r, o \in Reqs :
        /\ req[r].op = "refreshAccessToken" /\ Done(r)
        /\ req[r].res = Respond(401, "Refresh token has expired", {})
        /\ req[r].row \subseteq refreshTokens /\ req[r].row # {}
        /\ req[o].op = "login" /\ Done(o) /\ req[o].res.status = 200
====
